---------------------------- MODULE Spec2Model ----------------------------
(***************************************************************************)
(* A model of the MinimISA toolchain: the assembler back-ends              *)
(* (src/compiler), the stand-alone assemblers (src/compiler/myasm.rs,      *)
(* src/subject/asm.rs), the label resolver (src/compiler/labels.rs), the   *)
(* emulator memory (src/emu/include/memory.rs) and the subject simulator   *)
(* (src/subject/simu.src).                                                 *)
(*                                                                         *)
(* Machine integers are wider than the integers of the model checker, so   *)
(* an unsigned value is a little-endian sequence of bits 0/1 without a     *)
(* leading (most significant) zero, and a signed value is a record         *)
(* [neg, mag].  Text is a sequence of one-character strings.               *)
(***************************************************************************)
EXTENDS Integers, Sequences, FiniteSets, TLC

VARIABLES
    build,        \* "debug" (overflow checks panic) or "release" (wrapping)
    call,         \* SpecPure: the last call of an encoder function
    ret,          \* SpecPure: what that call returned
    huffman_tree, \* Spec: the opcode table the back-end was built with
    line,         \* Spec: the instruction handed to the cleartext back-end
    packet,       \* Spec: the packet handle_line pushed on out_queue
    smem,         \* Spec: the simulator's memory.rs Memory (counter, m)
    proc,         \* Spec: the Processor (pc, r, flags) and its last decode
    phase,        \* Spec: position in assemble / load / step
    emem,         \* SpecMem: the emulator Memory's words
    eop,          \* SpecMem: the last read or write and its result
    line_gene,    \* SpecLabels: the instruction stream
    fullcode,     \* SpecLabels: get_fullcode's list of (size, text) entries
    label_dict,   \* SpecLabels: get_label_pos's table
    addr_values,  \* SpecLabels: the address slots (nb_bit, s)
    lpc,          \* SpecLabels: position in packets()
    passes,       \* SpecLabels: passes of the widening loop so far
    endcode,      \* SpecLabels: the packets emitted
    obj_file,     \* SpecLabels: the file LabelsBinaryBackEnd::to_file leaves
    counter_c,    \* SpecHuff: compile_asm's counter c, mnemonic -> count
    huff_vec,     \* SpecHuff: the Vec of (code, mnemonic) huffman returned
    hufftree,     \* SpecHuff: compile_asm's hufftree after the collect
    hpc,          \* SpecHuff: position in compile_asm
    write_mode,   \* SpecBackEnd: "w+" for the cleartext back end, "wb" for the binary one
    be_lines,     \* SpecBackEnd: the back end's line_gene
    be_next,      \* SpecBackEnd: the line packets() handles next
    binary,       \* SpecBackEnd: BinaryBitcodeBackEnd's buffer of bits
    file,         \* SpecBackEnd: the file to_file writes, as bytes
    be_failed,    \* SpecBackEnd: the lines whose handle_line returned Err
    post_ret,     \* SpecBackEnd: what post_packets returned
    be_pc,        \* SpecBackEnd: position in to_file
    lex_files,    \* SpecLex: the items of every source file
    includes,     \* SpecLex: Lexer.includes
    lex_stack,    \* SpecLex: the calls of lex in progress, innermost last
    tokens,       \* SpecLex: the tokens the outermost iterator has yielded
    lex_result,   \* SpecLex: "none", "ok" or the error lexing ended with
    breakpoints,  \* SpecBreaks: BreakpointManager.breakpoints
    brk_log,      \* SpecBreaks: the calls made so far, with what they returned
    cpu,          \* SpecCpu: the emulator's CPU (r, flags, ptr, counts) and its memory
    cpu_log,      \* SpecCpu: what the last execute() started from and decoded
    parser,       \* SpecParser: the Parser (lexer_gen, stack, out_stack)
    parse_log,    \* SpecParser: the newlines handled so far, with what each left
    stop_signal,  \* SpecDisplay: the bool under Graphical.stop_signal's mutex
    holder,       \* SpecDisplay: the thread that holds that mutex, or "none"
    display,      \* SpecDisplay: the display thread's position and frames
    callers       \* SpecDisplay: the position of each thread calling wait() or stop()

vars == <<build, call, ret, huffman_tree, line, packet, smem, proc, phase, emem, eop,
          line_gene, fullcode, label_dict, addr_values, lpc, passes, endcode, obj_file,
          counter_c, huff_vec, hufftree, hpc,
          write_mode, be_lines, be_next, binary, file, be_failed, post_ret, be_pc,
          lex_files, includes, lex_stack, tokens, lex_result,
          breakpoints, brk_log,
          cpu, cpu_log,
          parser, parse_log,
          stop_signal, holder, display, callers>>

pureVars == <<call, ret>>
pipeVars == <<huffman_tree, line, packet, smem, proc, phase>>
memVars  == <<emem, eop>>
labVars  == <<line_gene, fullcode, label_dict, addr_values, lpc, passes, endcode,
              obj_file>>
huffVars == <<counter_c, huff_vec, hufftree, hpc>>
beVars   == <<write_mode, be_lines, be_next, binary, file, be_failed, post_ret, be_pc>>
lexVars  == <<lex_files, includes, lex_stack, tokens, lex_result>>
brkVars  == <<breakpoints, brk_log>>
cpuVars  == <<cpu, cpu_log>>
parVars  == <<parser, parse_log>>
gfxVars  == <<stop_signal, holder, display, callers>>

Max(a, b) == IF a >= b THEN a ELSE b
Min(a, b) == IF a <= b THEN a ELSE b

\* Rust evaluates an operand once, before the call that uses it: F applied
\* to the value of e
Value(F(_), e) == CHOOSE r \in {F(x) : x \in {e}} : TRUE

\* a Rust panic (the process aborts); also the outcome of an arithmetic
\* overflow in a debug build
Panic == [panic |-> TRUE]
IsPanic(x) == x = Panic

---------------------------------------------------------------------------
(* Unbounded naturals: little-endian bit sequences, no most-significant 0. *)

RECURSIVE Trim(_)
Trim(b) ==
    IF b = <<>> THEN <<>>
    ELSE IF b[Len(b)] = 0 THEN Trim(SubSeq(b, 1, Len(b) - 1)) ELSE b

RECURSIVE NatOf(_)
NatOf(i) == IF i = 0 THEN <<>> ELSE <<i % 2>> \o NatOf(i \div 2)

Zeros(k) == [i \in 1..k |-> 0]
Pow2N(k) == Zeros(k) \o <<1>>
BitAt(a, i) == IF i >= 1 /\ i <= Len(a) THEN a[i] ELSE 0

RECURSIVE AddRec(_, _, _, _, _)
AddRec(a, b, i, n, c) ==
    IF i > n THEN <<c>>
    ELSE LET s == BitAt(a, i) + BitAt(b, i) + c
         IN <<s % 2>> \o AddRec(a, b, i + 1, n, s \div 2)
AddN(a, b) == Trim(AddRec(a, b, 1, Max(Len(a), Len(b)), 0))

\* a - b for a >= b
RECURSIVE SubRec(_, _, _, _, _)
SubRec(a, b, i, n, br) ==
    IF i > n THEN <<>>
    ELSE LET d == BitAt(a, i) - BitAt(b, i) - br
         IN <<(d + 2) % 2>> \o SubRec(a, b, i + 1, n, IF d < 0 THEN 1 ELSE 0)
SubN(a, b) == Trim(SubRec(a, b, 1, Len(a), 0))

LtN(a, b) ==
    LET n == Max(Len(a), Len(b))
        D == {i \in 1..n : BitAt(a, i) # BitAt(b, i)}
    IN D # {} /\ BitAt(b, CHOOSE i \in D : \A j \in D : j <= i) = 1
LeN(a, b) == a = b \/ LtN(a, b)

LowBits(a, k) == Trim(SubSeq(a, 1, Min(k, Len(a))))      \* a mod 2^k
ShrN(a, k) == IF k >= Len(a) THEN <<>> ELSE SubSeq(a, k + 1, Len(a))  \* a div 2^k
ShlN(a, k) == IF a = <<>> THEN <<>> ELSE Zeros(k) \o a             \* a * 2^k

\* the value of a small natural (below 2^31) as a model integer
RECURSIVE IntOf(_)
IntOf(a) == IF a = <<>> THEN 0 ELSE a[1] + 2 * IntOf(Tail(a))

---------------------------------------------------------------------------
(* Signed integers [neg, mag] and the i64 / u64 / u32 machine types.       *)

ZNat(a) == [neg |-> FALSE, mag |-> a]
ZOf(i) == IF i < 0 THEN [neg |-> TRUE, mag |-> NatOf(-i)] ELSE ZNat(NatOf(i))
ZNeg(z) == IF z.mag = <<>> THEN z ELSE [neg |-> ~z.neg, mag |-> z.mag]
ZAdd(x, y) ==
    IF x.neg = y.neg THEN [neg |-> x.neg, mag |-> AddN(x.mag, y.mag)]
    ELSE IF x.mag = y.mag THEN ZNat(<<>>)
    ELSE IF LtN(x.mag, y.mag) THEN [neg |-> y.neg, mag |-> SubN(y.mag, x.mag)]
    ELSE [neg |-> x.neg, mag |-> SubN(x.mag, y.mag)]
ZLt(x, y) ==
    IF x.neg /\ ~y.neg THEN TRUE
    ELSE IF ~x.neg /\ y.neg THEN FALSE
    ELSE IF x.neg THEN LtN(y.mag, x.mag)
    ELSE LtN(x.mag, y.mag)
ZLe(x, y) == x = y \/ ZLt(x, y)

FitsI64(z) == IF z.neg THEN LeN(z.mag, Pow2N(63)) ELSE Len(z.mag) <= 63

\* z modulo 2^64 read as a two's-complement i64 (Rust's wrapping result)
I64Wrap(z) ==
    LET m == LowBits(z.mag, 64)
        u == IF z.neg /\ m # <<>> THEN SubN(Pow2N(64), m) ELSE m
    IN IF Len(u) <= 63 THEN ZNat(u)
       ELSE [neg |-> TRUE, mag |-> SubN(Pow2N(64), u)]

\* an i64 operation whose mathematical result is z: overflow panics in a
\* debug build and wraps in a release build
I64Checked(z, b) ==
    IF FitsI64(z) THEN z ELSE IF b = "debug" THEN Panic ELSE I64Wrap(z)

\* the 64 bits of an i64, as an unsigned value (the cast `as u64`)
I64Bits(z) == IF z.neg THEN SubN(Pow2N(64), z.mag) ELSE z.mag
\* the cast `as i64` of a u64
U64AsI64(a) == I64Wrap(ZNat(a))

\* 2i64.pow(e)
I64Pow2(e, b) == I64Checked(ZNat(Pow2N(e)), b)

\* x % q (truncated remainder) for a divisor q that is 0 or (+/-) a power of two
ZRem(x, q) ==
    IF q.mag = <<>> THEN Panic
    ELSE LET m == LowBits(x.mag, Len(q.mag) - 1)
         IN IF m = <<>> THEN ZNat(<<>>) ELSE [neg |-> x.neg, mag |-> m]

---------------------------------------------------------------------------
(* Text.                                                                   *)

BitChar(b) == IF b = 1 THEN "1" ELSE "0"
Reverse(s) == [i \in 1..Len(s) |-> s[Len(s) + 1 - i]]

\* format!("{:b}", n) for an unsigned n: big-endian, "0" for zero
BinText(a) == IF a = <<>> THEN <<"0">> ELSE [i \in 1..Len(a) |-> BitChar(a[Len(a) + 1 - i])]
\* format!("{:b}", n) for an i64 n: negative numbers print their 64 bits
FormatB(z) == BinText(I64Bits(z))

\* the unsigned value of a text of 0/1 characters
BitsOfText(t) == Trim([i \in 1..Len(t) |-> IF t[Len(t) + 1 - i] = "1" THEN 1 ELSE 0])

PadLeft(t, k) == IF Len(t) >= k THEN t ELSE [i \in 1..(k - Len(t)) |-> "0"] \o t

\* the 16-bit limb k (0 = least significant) of a u64
Limb(a, k) == IntOf(SubSeq(a, Min(16 * k + 1, Len(a) + 1), Min(16 * k + 16, Len(a))))

\* four limbs (most significant first) divided by 10000
Div10k(l) ==
    LET c3 == l[1]
        c2 == (c3 % 10000) * 65536 + l[2]
        c1 == (c2 % 10000) * 65536 + l[3]
        c0 == (c1 % 10000) * 65536 + l[4]
    IN [q |-> <<c3 \div 10000, c2 \div 10000, c1 \div 10000, c0 \div 10000>>,
        r |-> c0 % 10000]

Digit(d) == <<"0", "1", "2", "3", "4", "5", "6", "7", "8", "9">>[d + 1]
Digits4(g) == <<Digit(g \div 1000), Digit((g \div 100) % 10), Digit((g \div 10) % 10),
                Digit(g % 10)>>

\* u64::to_string(): the decimal digits, no leading zero
to_string(a) ==
    LET d0 == Div10k(<<Limb(a, 3), Limb(a, 2), Limb(a, 1), Limb(a, 0)>>)
        d1 == Div10k(d0.q)
        d2 == Div10k(d1.q)
        d3 == Div10k(d2.q)
        d4 == Div10k(d3.q)
        all == Digits4(d4.r) \o Digits4(d3.r) \o Digits4(d2.r) \o Digits4(d1.r)
               \o Digits4(d0.r)
        nz == {i \in 1..20 : all[i] # "0"}
    IN IF nz = {} THEN <<"0">>
       ELSE SubSeq(all, CHOOSE i \in nz : \A j \in nz : i <= j, 20)

T(bits) == [i \in 1..Len(bits) |-> BitChar(bits[i])]

RECURSIVE Join(_, _)
Join(parts, sep) ==
    IF parts = <<>> THEN <<>>
    ELSE IF Len(parts) = 1 THEN parts[1]
    ELSE parts[1] \o sep \o Join(Tail(parts), sep)

IsSpace(c) == c \in {" ", "\n"}
StripSpace(t) == SelectSeq(t, LAMBDA c : ~IsSpace(c))
IsPrefix(p, t) == Len(p) <= Len(t) /\ SubSeq(t, 1, Len(p)) = p

---------------------------------------------------------------------------
(* Results of the fallible encoder functions (Result<String, _>).          *)

Ok(t) == [kind |-> "ok", val |-> t]
Err(m) == [kind |-> "err", val |-> m]
PanicR == [kind |-> "panic", val |-> "panic"]
\* `prefix + &f(...)?`
Prefixed(p, r) == IF r.kind = "ok" THEN Ok(p \o r.val) ELSE r

---------------------------------------------------------------------------
(* src/compiler/back_end.rs: CleartextBitcodeBackEnd's encoders.           *)

NB_BIT_REG == 8

\* floor(z / 2^s), the arithmetic shift right of an i64
AsrZ(z, s) ==
    IF ~z.neg THEN ZNat(ShrN(z.mag, s))
    ELSE [neg |-> TRUE, mag |-> ShrN(AddN(z.mag, SubN(Pow2N(s), NatOf(1))), s)]

binary_repr(n, k, signed, b) ==
    LET p1 == I64Pow2(k - 1, b)
        lo == IF IsPanic(p1) THEN Panic ELSE I64Checked(ZNeg(p1), b)
        inrange == ZLe(lo, n) /\ ZLt(n, p1)
        pk == I64Pow2(k, b)
        sum == IF IsPanic(pk) THEN Panic ELSE I64Checked(ZAdd(pk, n), b)
        m == IF ~signed THEN n
             ELSE IF IsPanic(sum) THEN Panic ELSE ZRem(sum, pk)
    IN IF signed /\ (IsPanic(p1) \/ IsPanic(lo)) THEN PanicR
       ELSE IF signed /\ ~inrange THEN Err("Number not in range")
       ELSE IF IsPanic(m) THEN PanicR
       ELSE IF Len(FormatB(m)) > k THEN Err("Too long binary")
       ELSE Ok(PadLeft(FormatB(m), k))

bin_register(val, b) == binary_repr(U64AsI64(val), NB_BIT_REG, FALSE, b)

U32Max == SubN(Pow2N(32), NatOf(1))

bin_uconstant(val, b) ==
    IF LeN(val, NatOf(1))
    THEN Prefixed(<<"0">>, binary_repr(U64AsI64(val), 1, FALSE, b))
    ELSE IF LeN(val, NatOf(255))
    THEN Prefixed(<<"1", "0">>, binary_repr(U64AsI64(val), 8, FALSE, b))
    ELSE IF LeN(val, U32Max)
    THEN Prefixed(<<"1", "1", "0">>, binary_repr(U64AsI64(val), 32, FALSE, b))
    ELSE Err("Invalid constant: Not in range")

---------------------------------------------------------------------------
(* src/compiler/myasm.rs: the stand-alone assembler's encoders.            *)

myasm_NB_REG == 8
myasm_NB_BIT_REG == 3       \* (NB_REG as f64).log2().ceil()

\* 1 << e on an i64: a shift amount of 64 or more panics in a debug build
\* and is masked to its low 6 bits in a release build
I64Shl1(e, b) ==
    IF e >= 64 THEN (IF b = "debug" THEN Panic ELSE I64Wrap(ZNat(Pow2N(e % 64))))
    ELSE I64Wrap(ZNat(Pow2N(e)))

myasm_binary_repr(n, k, signed, b) ==
    LET p1 == I64Shl1(k - 1, b)
        lo == IF IsPanic(p1) THEN Panic ELSE I64Checked(ZNeg(p1), b)
        outrange == ZLt(n, lo) \/ ZLe(p1, n)
        pk == I64Shl1(k, b)
        sum == IF IsPanic(pk) THEN Panic ELSE I64Checked(ZAdd(pk, n), b)
        m == IF signed THEN sum ELSE n
    IN IF signed /\ (IsPanic(p1) \/ IsPanic(lo)) THEN PanicR
       ELSE IF signed /\ outrange THEN Err("Number not in range")
       ELSE IF IsPanic(m) THEN PanicR
       ELSE IF Len(FormatB(m)) > k THEN Err("Too long binary")
       ELSE Ok(PadLeft(FormatB(m), k))

\* asm_reg on the register number of a token rN
asm_reg(val, b) ==
    IF ~LtN(val, NatOf(myasm_NB_REG)) THEN Err("Invalid register number")
    ELSE myasm_binary_repr(ZNat(val), myasm_NB_BIT_REG, FALSE, b)

\* asm_const on the value of an unsigned decimal token: the token is parsed
\* as an i64, then compared with 1 << 1, 1 << 8, 1 << 32, 1 << 64
asm_const(v, b) ==
    LET val == ZNat(v)
        lim(e) == I64Shl1(e, b)
    IN IF ~FitsI64(val) THEN Err("Invalid decimal constant")
       ELSE IF ZLt(val, lim(1)) THEN Prefixed(<<"0">>, myasm_binary_repr(val, 1, FALSE, b))
       ELSE IF ZLt(val, lim(8)) THEN Prefixed(<<"1", "0">>, myasm_binary_repr(val, 8, FALSE, b))
       ELSE IF ZLt(val, lim(32)) THEN Prefixed(<<"1", "1", "0">>, myasm_binary_repr(val, 32, FALSE, b))
       ELSE IF IsPanic(lim(64)) THEN PanicR
       ELSE IF ZLt(val, lim(64)) THEN Prefixed(<<"1", "1", "1">>, myasm_binary_repr(val, 64, FALSE, b))
       ELSE Err("Invalid constant: not in range")

\* asm_shiftval on the value of a shift-value token, parsed as a u64
asm_shiftval(v, b) ==
    IF ~LtN(v, Pow2N(64)) THEN Err("Invalid shiftval syntax")
    ELSE IF v = NatOf(1) THEN myasm_binary_repr(ZNat(v), 1, FALSE, b)
    ELSE IF LtN(v, NatOf(64)) THEN Prefixed(<<"0">>, myasm_binary_repr(ZNat(v), 6, FALSE, b))
    ELSE Err("Invalid shiftval: not in range")

---------------------------------------------------------------------------
(* src/subject/asm.rs: the size codes of the memory instructions.          *)

codelist ==
    (1 :> <<"0", "0">>) @@ (4 :> <<"0", "1">>) @@ (8 :> <<"1", "0", "0">>)
    @@ (16 :> <<"1", "0", "1">>) @@ (32 :> <<"1", "1", "0">>)
    @@ (64 :> <<"1", "1", "1">>)

\* asm_size: error("Invalid size") panics for a text that is not a key
asm_size(s) == IF s \in DOMAIN codelist THEN Ok(codelist[s]) ELSE PanicR

---------------------------------------------------------------------------
(* src/emu/include/util.rs                                                 *)

\* ((x << shift) as i64) >> shift with shift = 64 - n
sign_extend(x, n, b) ==
    IF n < 1 \/ n > 64
    THEN (IF b = "debug" THEN Panic
          ELSE AsrZ(U64AsI64(LowBits(ShlN(x, (64 - n) % 64), 64)), (64 - n) % 64))
    ELSE AsrZ(U64AsI64(LowBits(ShlN(x, 64 - n), 64)), 64 - n)

---------------------------------------------------------------------------
(* src/compiler/compileuh.rs: the fixed default opcode table.              *)

DEFAULT_OPCODE ==
    [add2 |-> T(<<0,0,0,0>>), add2i |-> T(<<0,0,0,1>>),
     sub2 |-> T(<<0,0,1,0>>), sub2i |-> T(<<0,0,1,1>>),
     cmp |-> T(<<0,1,0,0>>), cmpi |-> T(<<0,1,0,1>>),
     let |-> T(<<0,1,1,0>>), leti |-> T(<<0,1,1,1>>),
     shift |-> T(<<1,0,0,0>>),
     readze |-> T(<<1,0,0,1,0>>), pop |-> T(<<1,0,0,1,0,0,1>>),
     readse |-> T(<<1,0,0,1,1>>),
     jump |-> T(<<1,0,1,0>>), jumpif |-> T(<<1,0,1,1>>),
     or2 |-> T(<<1,1,0,0,0,0>>), or2i |-> T(<<1,1,0,0,0,1>>),
     and2 |-> T(<<1,1,0,0,1,0>>), and2i |-> T(<<1,1,0,0,1,1>>),
     write |-> T(<<1,1,0,1,0,0>>), call |-> T(<<1,1,0,1,0,1>>),
     setctr |-> T(<<1,1,0,1,1,0>>), getctr |-> T(<<1,1,0,1,1,1>>),
     push |-> T(<<1,1,1,0,0,0,0>>), return |-> T(<<1,1,1,0,0,0,1>>),
     add3 |-> T(<<1,1,1,0,0,1,0>>), add3i |-> T(<<1,1,1,0,0,1,1>>),
     sub3 |-> T(<<1,1,1,0,1,0,0>>), sub3i |-> T(<<1,1,1,0,1,0,1>>),
     and3 |-> T(<<1,1,1,0,1,1,0>>), and3i |-> T(<<1,1,1,0,1,1,1>>),
     or3 |-> T(<<1,1,1,1,0,0,0>>), or3i |-> T(<<1,1,1,1,0,0,1>>),
     xor3 |-> T(<<1,1,1,1,0,1,0>>), xor3i |-> T(<<1,1,1,1,0,1,1>>),
     asr3 |-> T(<<1,1,1,1,1,0,0>>), sleep |-> T(<<1,1,1,1,1,0,1>>),
     rand |-> T(<<1,1,1,1,1,1,0>>), reserved3 |-> T(<<1,1,1,1,1,1,1>>)]

---------------------------------------------------------------------------
(* src/compiler/back_end.rs: Line, TypedArg and the cleartext handle_line. *)

RegArg(i) == [typ |-> "Register", raw_value |-> NatOf(i)]
OtherArg(v) == [typ |-> "Other", raw_value |-> v]
MkLine(f, args) == [funcname |-> f, typed_args |-> args]

\* one operand of handle_line: a register through bin_register, every
\* other operand through raw_value.to_string()
realize_arg(arg, b) ==
    IF arg.typ = "Register" THEN bin_register(arg.raw_value, b)
    ELSE Ok(to_string(arg.raw_value))

join_fields(tree, l, fields) ==
    LET bad == {i \in 1..Len(fields) : fields[i].kind # "ok"}
    IN IF bad # {} THEN fields[CHOOSE i \in bad : \A j \in bad : i <= j]
       ELSE Ok(Join(<<tree[l.funcname]>>
                    \o [i \in 1..Len(fields) |-> fields[i].val], <<" ">>))

handle_line(l, tree, b) ==
    IF l.funcname \notin DOMAIN tree THEN Err("Function not found")
    ELSE Value(LAMBDA fields : join_fields(tree, l, fields),
               [i \in 1..Len(l.typed_args) |-> realize_arg(l.typed_args[i], b)])

---------------------------------------------------------------------------
(* src/compiler/back_end.rs: BinaryBitcodeBackEnd.  A file is the bytes    *)
(* written to it.                                                          *)

\* usize::from_str_radix(t, 2): an empty text, a character other than 0
\* and 1 and a value of more than 64 bits are errors
usize_from_str_radix(t) ==
    IF t = <<>> THEN Err("Empty")
    ELSE IF \E i \in 1..Len(t) : t[i] \notin {"0", "1"} THEN Err("InvalidDigit")
    ELSE IF Len(BitsOfText(t)) > 64 THEN Err("PosOverflow")
    ELSE Ok(BitsOfText(t))

\* usize::to_be_bytes: the eight bytes of the value, most significant first
usize_to_be_bytes(a) == [i \in 1..8 |-> IntOf(LowBits(ShrN(a, 8 * (8 - i)), 8))]

HexDigits == <<"0", "1", "2", "3", "4", "5", "6", "7", "8", "9", "a", "b", "c", "d", "e", "f">>

\* hex::encode: two lower-case digits for every byte
hex_encode(bytes) ==
    [i \in 1..(2 * Len(bytes)) |->
        IF i % 2 = 1 THEN HexDigits[bytes[(i + 1) \div 2] \div 16 + 1]
        ELSE HexDigits[(bytes[i \div 2] % 16) + 1]]

\* str::as_bytes over the characters the back ends write
as_bytes(t) ==
    [i \in 1..Len(t) |->
        IF t[i] = "\n" THEN 10
        ELSE IF t[i] = " " THEN 32
        ELSE LET d == CHOOSE k \in 1..16 : HexDigits[k] = t[i]
             IN IF d <= 10 THEN 47 + d ELSE 86 + d]

\* .replace(" ", "")
replace_spaces(t) == SelectSeq(t, LAMBDA c : c # " ")

\* the part of BinaryBitcodeBackEnd::handle_line after the cleartext line
\* r was queued, with the buffer bin
flush_bytes(bin, r) ==
    LET joined == bin \o replace_spaces(r)
        q == Len(joined) \div 8
        bitline == usize_from_str_radix(SubSeq(joined, 1, q * 8))
    IN IF bitline.kind # "ok" THEN [kind |-> "panic", binary |-> bin, packet |-> <<>>]
       ELSE [kind |-> "ok", binary |-> SubSeq(joined, q * 8 + 1, Len(joined)),
             packet |-> hex_encode(usize_to_be_bytes(bitline.val))]

\* BinaryBitcodeBackEnd::handle_line: the buffer it leaves and the packet
\* it queues
binary_handle_line(bin, l, tree, b) ==
    Value(LAMBDA r : IF r.kind = "ok" THEN flush_bytes(bin, r.val)
                     ELSE [kind |-> r.kind, binary |-> bin, packet |-> <<>>],
          handle_line(l, tree, b))

\* CleartextBitcodeBackEnd::handle_line, in the same shape
cleartext_handle_line(bin, l, tree, b) ==
    Value(LAMBDA r : [kind |-> r.kind, binary |-> bin,
                      packet |-> IF r.kind = "ok" THEN r.val ELSE <<>>],
          handle_line(l, tree, b))

\* BinaryBitcodeBackEnd::post_packets
binary_post_packets(bin) ==
    LET bitline == usize_from_str_radix(bin \o [i \in 1..(8 - Len(bin)) |-> "0"])
    IN IF bin = <<>> THEN [kind |-> "None", bytes |-> <<>>, binary |-> bin]
       ELSE IF Len(bin) > 8 \/ bitline.kind # "ok"
       THEN [kind |-> "panic", bytes |-> <<>>, binary |-> bin]
       ELSE [kind |-> "Some", bytes |-> usize_to_be_bytes(bitline.val), binary |-> <<>>]

---------------------------------------------------------------------------
(* src/subject/simu.src/memory.rs: the bit memory the object file is       *)
(* loaded into.  m holds the words written so far; every other word is 0.  *)

MEMSIZE == 16777216
PC == 0
SP == 1
A0 == 2
A1 == 3

WordAt(m, w) == IF w \in DOMAIN m THEN m[w] ELSE <<>>
SetWord(m, w, x) == [v \in (DOMAIN m) \cup {w} |-> IF v = w THEN x ELSE m[v]]

\* (word & !(1 << shift)) | (bit << shift)
SetBit(word, shift, bit) ==
    Trim([i \in 1..Max(Len(word), shift + 1) |->
            IF i = shift + 1 THEN bit ELSE BitAt(word, i)])

Memory_new == [counter |-> [c \in 0..3 |-> 0], m |-> <<>>]

\* Memory::read_bit(ctr): the bit at counter[ctr], which advances by 1
read_bit(mem, ctr) ==
    LET word_addr == mem.counter[ctr] \div 64
        shift == mem.counter[ctr] % 64
    IN IF word_addr >= MEMSIZE \div 64 THEN Panic
       ELSE [bit |-> BitAt(WordAt(mem.m, word_addr), shift + 1),
             mem |-> [mem EXCEPT !.counter[ctr] = @ + 1]]

write_bit(mem, ctr, bit) ==
    LET word_addr == mem.counter[ctr] \div 64
        shift == mem.counter[ctr] % 64
    IN IF bit \notin {0, 1} \/ word_addr >= MEMSIZE \div 64 THEN Panic
       ELSE [counter |-> [mem.counter EXCEPT ![ctr] = @ + 1],
             m |-> SetWord(mem.m, word_addr, SetBit(WordAt(mem.m, word_addr), shift, bit))]

set_counter(mem, ctr, val) == [mem EXCEPT !.counter[ctr] = val]

RECURSIVE fill_chars(_, _)
fill_chars(mem, text) ==
    IF text = <<>> \/ IsPanic(mem) THEN mem
    ELSE IF Head(text) = "0" THEN fill_chars(write_bit(mem, PC, 0), Tail(text))
    ELSE IF Head(text) = "1" THEN fill_chars(write_bit(mem, PC, 1), Tail(text))
    ELSE fill_chars(mem, Tail(text))

fill_with_obj_file(mem, text) ==
    LET filled == fill_chars(set_counter(mem, PC, 0), text)
    IN IF IsPanic(filled) THEN Panic ELSE set_counter(filled, PC, 0)

---------------------------------------------------------------------------
(* src/subject/simu.src/processor.rs: the processor, its own Memory type   *)
(* and one fetch-decode-execute step.  Registers are 32-bit naturals.      *)

WORDSIZE == 32

\* processor.rs Memory::read_bit(&self, _pc) -> u64 { 0 }
proc_read_bit(m, pc) == 0

proc_set_counter(m, idx, value) == [m EXCEPT !.counter[idx] = value]

Processor_new ==
    [m |-> [counter |-> [c \in 0..3 |-> 0]],
     pc |-> 0, sp |-> 0, a1 |-> 0, a2 |-> 0,
     r |-> [i \in 0..7 |-> <<>>],
     zflag |-> FALSE, cflag |-> FALSE, nflag |-> FALSE,
     \* bookkeeping of the run: a panic that ended it, the locals of the
     \* last step, the register file before it, the steps taken
     panicked |-> FALSE, dec |-> [mnemonic |-> "none"],
     before |-> [i \in 0..7 |-> <<>>], steps |-> 0]

\* a reader's cursor: the processor's pc, the variable being filled, and
\* whether an arithmetic overflow happened on the way
Cur(pc, var) == [pc |-> pc, var |-> var, ovf |-> FALSE]

\* read_bit_from_pc: var = (var << 1) + bit; pc += 1
read_bit_from_pc(m, c) ==
    [c EXCEPT !.var = 2 * c.var + proc_read_bit(m, c.pc), !.pc = c.pc + 1]

RECURSIVE read_bits(_, _, _)
read_bits(m, c, n) ==
    IF n = 0 THEN c ELSE read_bits(m, read_bit_from_pc(m, c), n - 1)

read_reg_from_pc(m, c) == read_bits(m, [c EXCEPT !.var = 0], 3)
read_shiftval_from_pc(m, c) == read_bits(m, [c EXCEPT !.var = 0], 7)
read_cond_from_pc(m, c) == read_bits(m, [c EXCEPT !.var = 0], 3)
read_counter_from_pc(m, c) == read_bits(m, [c EXCEPT !.var = 0], 2)
read_size_from_pc(m, c) == read_bits(m, [c EXCEPT !.var = 0], 2)

\* the loop "*var = (*var << 1) + bit" on an unsigned variable of w bits;
\* the shift drops the top bit silently
RECURSIVE read_wide(_, _, _, _)
read_wide(m, c, n, w) ==
    IF n = 0 THEN c
    ELSE read_wide(m, [c EXCEPT !.var = AddN(LowBits(ShlN(c.var, 1), w),
                                             NatOf(proc_read_bit(m, c.pc))),
                                !.pc = c.pc + 1], n - 1, w)

\* the header of a constant or an address: "0", "10", "110" or "111"
read_header(m, c, sizes) ==
    LET h1 == read_bit_from_pc(m, [c EXCEPT !.var = 0])
        h2 == read_bit_from_pc(m, h1)
        h3 == read_bit_from_pc(m, h2)
    IN IF h1.var = 0 THEN [c |-> h1, size |-> sizes[1]]
       ELSE IF h2.var = 2 THEN [c |-> h2, size |-> sizes[2]]
       ELSE IF h3.var = 6 THEN [c |-> h3, size |-> sizes[3]]
       ELSE [c |-> h3, size |-> sizes[4]]

read_const_from_pc(m, c) ==
    LET h == read_header(m, c, <<1, 8, 32, 64>>)
    IN read_wide(m, [h.c EXCEPT !.var = <<>>], h.size, 64)

\* a u32 shift: an amount outside 0..31 overflows (checked build) or is
\* taken modulo 32 (unchecked build)
U32Shr(a, sh) == [ovf |-> sh < 0 \/ sh >= WORDSIZE, val |-> ShrN(a, sh % WORDSIZE)]
U32Shl(a, sh) == [ovf |-> sh < 0 \/ sh >= WORDSIZE,
                  val |-> LowBits(ShlN(a, sh % WORDSIZE), WORDSIZE)]
U32Add(a, c) == [ovf |-> Len(AddN(a, c)) > WORDSIZE, val |-> LowBits(AddN(a, c), WORDSIZE)]

\* for i in size..WORDSIZE { *var += sign << i }
RECURSIVE sign_fill(_, _, _)
sign_fill(acc, sign, i) ==
    IF i >= WORDSIZE THEN acc
    ELSE LET a == U32Add(acc.val, U32Shl(sign, i).val)
         IN sign_fill([ovf |-> acc.ovf \/ a.ovf, val |-> a.val], sign, i + 1)

read_addr_from_pc(m, c) ==
    LET h == read_header(m, c, <<8, 16, 32, 64>>)
        v == read_wide(m, [h.c EXCEPT !.var = <<>>], h.size, WORDSIZE)
        sh == U32Shr(v.var, h.size - 1)
        sign == LowBits(sh.val, 1)
        f == sign_fill([ovf |-> sh.ovf, val |-> v.var], sign, h.size)
    IN [pc |-> v.pc, var |-> f.val, ovf |-> f.ovf]

\* the locals of von_neumann_step, as they stand when it returns
Locals(p) ==
    [mnemonic |-> "none", opcode |-> 0, regnum1 |-> 0, regnum2 |-> 0,
     constop |-> <<>>, offset |-> <<>>, shiftval |-> 0, dir |-> 0,
     instr_pc |-> p.pc, uop1 |-> <<>>, uop2 |-> <<>>, manage_flags |-> FALSE]

\* the processor after a step that ended in a panic at cursor c
Aborted(p, c, d) == [p EXCEPT !.pc = c.pc, !.panicked = TRUE, !.dec = d]

\* add2 and add2i after their operands are read: the sum, the register
\* write-back and the flag management block
step_add(p, b, c, d) ==
    LET fullr == AddN(d.uop1, d.uop2)
        ur == U32Add(d.uop1, d.uop2)
    IN IF ur.ovf /\ b = "debug" THEN Aborted(p, c, d)
       ELSE [p EXCEPT !.pc = c.pc,
                      !.r[d.regnum1] = ur.val,
                      !.zflag = (ur.val = <<>>),
                      !.cflag = LtN(Pow2N(WORDSIZE), fullr),
                      !.nflag = (BitAt(ur.val, WORDSIZE) = 1),
                      !.dec = d]

step_jump(p, b, c, d) ==
    LET a == read_addr_from_pc(p.m, c)
        t == U32Add(NatOf(a.pc), a.var)
        dj == [d EXCEPT !.offset = a.var]
    IN IF (a.ovf \/ t.ovf) /\ b = "debug" THEN Aborted(p, a, dj)
       ELSE [p EXCEPT !.pc = IntOf(t.val),
                      !.m = proc_set_counter(p.m, PC, IntOf(t.val)),
                      !.dec = dj]

step_shift(p, b, c, d) ==
    LET cd == read_bit_from_pc(p.m, [c EXCEPT !.var = 0])
        c1 == read_reg_from_pc(p.m, cd)
        c2 == read_shiftval_from_pc(p.m, c1)
        uop1 == p.r[c1.var]
        right == cd.var = 1
        ur == IF right THEN U32Shr(uop1, c2.var) ELSE U32Shl(uop1, c2.var)
        cs == IF right THEN U32Shr(uop1, c2.var - 1) ELSE U32Shl(uop1, c2.var - 1)
        cf == IF right THEN BitAt(cs.val, 1) = 1 ELSE BitAt(cs.val, WORDSIZE) = 1
        ds == [d EXCEPT !.dir = cd.var, !.regnum1 = c1.var, !.shiftval = c2.var,
                        !.uop1 = uop1]
    IN IF (ur.ovf \/ cs.ovf) /\ b = "debug" THEN Aborted(p, c2, ds)
       ELSE [p EXCEPT !.pc = c2.pc, !.r[c1.var] = ur.val, !.cflag = cf,
                      !.zflag = (ur.val = <<>>), !.dec = ds]

\* handle_write_operation reads a register and a size and writes nothing
handle_write_operation(p, c, d) ==
    LET c1 == read_reg_from_pc(p.m, c)
        c2 == read_size_from_pc(p.m, c1)
    IN [p EXCEPT !.pc = c2.pc, !.dec = d]

von_neumann_step(p, b) ==
    LET o == read_bits(p.m, Cur(p.pc, 0), 4)
        d == [Locals(p) EXCEPT !.opcode = o.var]
        r1 == read_reg_from_pc(p.m, o)
        r2 == read_reg_from_pc(p.m, r1)
        k == read_const_from_pc(p.m, r1)
        o6 == read_bits(p.m, o, 2)
        o7 == read_bits(p.m, o, 3)
    IN CASE o.var = 0 ->
              step_add(p, b, r2,
                       [d EXCEPT !.mnemonic = "add2", !.regnum1 = r1.var,
                                 !.regnum2 = r2.var, !.uop1 = p.r[r1.var],
                                 !.uop2 = p.r[r2.var], !.manage_flags = TRUE])
         [] o.var = 1 ->
              step_add(p, b, k,
                       [d EXCEPT !.mnemonic = "add2i", !.regnum1 = r1.var,
                                 !.constop = k.var, !.uop1 = p.r[r1.var],
                                 !.uop2 = LowBits(k.var, WORDSIZE),
                                 !.manage_flags = TRUE])
         [] o.var = 10 -> step_jump(p, b, o, [d EXCEPT !.mnemonic = "jump"])
         [] o.var = 8 -> step_shift(p, b, o, [d EXCEPT !.mnemonic = "shift"])
         [] o.var \in {12, 13} ->
              IF o6.var = 52
              THEN handle_write_operation(p, o6, [d EXCEPT !.mnemonic = "write",
                                                           !.opcode = o6.var])
              ELSE [p EXCEPT !.pc = o6.pc, !.dec = [d EXCEPT !.opcode = o6.var]]
         [] o.var \in {14, 15} ->
              [p EXCEPT !.pc = o7.pc, !.dec = [d EXCEPT !.opcode = o7.var]]
         [] OTHER -> [p EXCEPT !.pc = o.pc, !.dec = d]

---------------------------------------------------------------------------
(* src/emu/include/memory.rs: the emulator's bit-addressable memory.       *)
(* mem[i + 1] is the code's mem[i].                                        *)

MEMORY_DEFAULT_TEXT == 32768
MEMORY_DEFAULT_STACK == 16384
MEMORY_DEFAULT_DATA == 16384
MEMORY_DEFAULT_VRAM == 327680

\* a u64 word is the set of the positions (0 = least significant) of its
\* set bits: & is intersection, | is union, ! is the complement in 0..63
Bits64 == 0..63
WordOf(a) == {i \in Bits64 : BitAt(a, i + 1) = 1}
Not64(w) == Bits64 \ w

\* a u64 shift amount computed as 64 - x: below 0 the subtraction
\* overflows, at 64 or above the shift does; an unchecked build goes on
\* with the amount modulo 64
Amount(x) == [ovf |-> x < 0 \/ x >= 64, val |-> x % 64]
U64Shl(w, sh) == {i + sh : i \in w} \cap Bits64
U64Shr(w, sh) == {i - sh : i \in w} \cap Bits64

emu_Memory_new(text, stack, data, vram) ==
    [memsize |-> text + stack + data + vram,
     text |-> IF text # 0 THEN text ELSE MEMORY_DEFAULT_TEXT,
     stack |-> IF stack # 0 THEN stack ELSE MEMORY_DEFAULT_STACK,
     data |-> IF data # 0 THEN data ELSE MEMORY_DEFAULT_DATA,
     vram |-> IF vram # 0 THEN vram ELSE MEMORY_DEFAULT_VRAM,
     mem |-> [i \in 1..((text + stack + data + vram) \div 64) |-> {}]]

\* Memory::read(address, n): a record with the value read, or a panic
emu_read(me, address, n, b) ==
    LET bit_pos == address % 64
        word_index == address \div 64
        sh == Amount(64 - n - bit_pos)
        first == U64Shr(me.mem[word_index + 1], sh.val)
        crosses == bit_pos + n > 64 /\ word_index + 1 < Len(me.mem)
        sh2 == Amount(64 - bit_pos)
    IN IF n > 64 \/ word_index >= Len(me.mem) THEN Panic
       ELSE IF sh.ovf /\ b = "debug" THEN Panic
       ELSE IF ~crosses THEN [val |-> first]
       ELSE IF sh2.ovf /\ b = "debug" THEN Panic
       ELSE [val |-> first \cup U64Shl(me.mem[word_index + 2], sh2.val)]

\* Memory::write(address, value, n): the memory after it, or a panic
emu_write(me, address, value, n, b) ==
    LET bit_pos == address % 64
        word_index == address \div 64
        mamt == Amount(n)
        \* (1u64 << n) - 1: the bits below the one that 1 << n sets
        mask == {i \in Bits64 : i < mamt.val}
        sh == Amount(64 - n - bit_pos)
        w0 == me.mem[word_index + 1]
        w0c == w0 \cap Not64(U64Shl(mask, sh.val))
        w0n == w0c \cup U64Shl(value \cap mask, sh.val)
        crosses == bit_pos + n > 64 /\ word_index + 1 < Len(me.mem)
        sh2 == Amount(64 - bit_pos)
        w1 == me.mem[word_index + 2]
        w1c == w1 \cap Not64(U64Shr(mask, sh2.val))
        w1n == w1c \cup U64Shr(value \cap mask, sh2.val)
    IN IF n > 64 \/ word_index >= Len(me.mem) THEN Panic
       ELSE IF (mamt.ovf \/ sh.ovf) /\ b = "debug" THEN Panic
       ELSE IF ~crosses THEN [me EXCEPT !.mem[word_index + 1] = w0n]
       ELSE IF sh2.ovf /\ b = "debug" THEN Panic
       ELSE [me EXCEPT !.mem[word_index + 1] = w0n, !.mem[word_index + 2] = w1n]

\* a memory whose first word holds the bits of text t from address 0 on
\* (address 0 is the most significant bit of word 0)
Holding(t) ==
    [emu_Memory_new(64, 0, 0, 0) EXCEPT
        !.mem[1] = {64 - i : i \in {j \in 1..Len(t) : t[j] = "1"}}]

\* Memory::read_bits(ptr, n): read(ptr, n) narrowed to a u32
emu_read_bits(me, ptr, n, b) ==
    LET r == emu_read(me, ptr, n, b)
    IN IF IsPanic(r) THEN Panic
       ELSE [val |-> IntOf(Trim([i \in 1..32 |-> IF (i - 1) \in r.val THEN 1 ELSE 0]))]

(* src/emu/include/disasm.rs: the operand readers of the disassembler.     *)

disasm_shift(me, ptr, b) ==
    LET shift == emu_read_bits(me, ptr, 6, b)
    IN IF IsPanic(shift) THEN Panic ELSE [val |-> shift.val, ptr |-> ptr + 6]

disasm_size(me, ptr, b) ==
    LET size == emu_read_bits(me, ptr, 3, b)
    IN IF IsPanic(size) THEN Panic ELSE [val |-> size.val, ptr |-> ptr + 3]

---------------------------------------------------------------------------
(* src/compiler/labels.rs: LabelsClearTextBackEnd.  The code indexes       *)
(* fullcode from 0; entry k of the code is fullcode[k + 1] here, and       *)
(* addr_values and label_dict hold the code's 0-based indices.             *)

bit_cost == (8 :> 9) @@ (16 :> 18) @@ (32 :> 35) @@ (64 :> 67)
bit_prefix == (8 :> T(<<0>>)) @@ (16 :> T(<<1, 0>>)) @@ (32 :> T(<<1, 1, 0>>))
              @@ (64 :> T(<<1, 1, 1>>))

JumpOps == {"jumpl", "jumpifl", "calll"}
LabelOps == JumpOps \cup {"label"}

\* &line.funcname[..line.funcname.len() - 1]
DropLast == [jumpl |-> "jump", jumpifl |-> "jumpif", calll |-> "call"]

\* what line.clone() leaves as the text of a fullcode entry: not empty
LineText(l) == <<l.funcname>>

Entry(size, text) == [size |-> size, text |-> text]

\* the entries a label-bearing line or a label pushes, after the text acc
\* gathered since the previous one
pushed_entries(l, tree, acc) ==
    LET bitcode == IF l.funcname = "label" THEN <<>> ELSE tree[DropLast[l.funcname]]
        slot == IF l.funcname \in {"jumpl", "calll"}
                   THEN <<Entry(Len(bitcode), LineText(l))>>
                ELSE IF l.funcname = "jumpifl"
                   THEN <<Entry(Len(bitcode) + 3, LineText(l))>>
                ELSE <<>>
    IN <<Entry(Len(StripSpace(acc)), acc)>> \o slot

\* the for loop of get_fullcode; acc is the text gathered since the last
\* label-bearing line or label, out the entries pushed so far
RECURSIVE fullcode_loop(_, _, _, _, _)
fullcode_loop(lines, tree, b, acc, out) ==
    IF lines = <<>> THEN Ok(out \o <<Entry(Len(acc), acc)>>)
    ELSE IF Head(lines).funcname \notin LabelOps
    THEN Value(LAMBDA r : IF r.kind # "ok" THEN PanicR
                          ELSE Value(LAMBDA a : fullcode_loop(Tail(lines), tree, b, a, out),
                                     acc \o r.val \o <<"\n">>),
               handle_line(Head(lines), tree, b))
    ELSE IF Head(lines).funcname # "label"
            /\ DropLast[Head(lines).funcname] \notin DOMAIN tree
    THEN PanicR
    ELSE Value(LAMBDA o : fullcode_loop(Tail(lines), tree, b, <<>>, o),
               out \o pushed_entries(Head(lines), tree, acc))

get_fullcode(lines, tree, b) == fullcode_loop(lines, tree, b, <<>>, <<Entry(0, <<>>)>>)

\* get_label_pos: for every index i of fullcode, the first label line of
\* the stream is found and its label is inserted with i
get_label_pos(lines, fc) ==
    LET labels == {k \in 1..Len(lines) : lines[k].funcname = "label"}
        first == CHOOSE k \in labels : \A m \in labels : k <= m
    IN IF labels = {} \/ fc = <<>> THEN <<>>
       ELSE [x \in {lines[first].typed_args[1].raw_value} |-> Len(fc) - 1]

RECURSIVE span(_, _, _, _)
span(fc, av, lo, hi) ==
    IF lo > hi THEN 0
    ELSE fc[lo + 1].size + (IF lo \in DOMAIN av THEN bit_cost[av[lo].nb_bit] ELSE 0)
         + span(fc, av, lo + 1, hi)

count_bytes(fc, av, i, j) ==
    IF j < i THEN span(fc, av, j + 1, i - 1) ELSE 0 - span(fc, av, i, j)

\* the slots packets() creates before the loop
initial_slots(lines, fc) ==
    [j \in {k \in 0..(Len(fc) - 1) : k < Len(lines) /\ lines[k + 1].funcname \in JumpOps}
        |-> [nb_bit |-> 8, s |-> 0]]

\* s < -(1 << (nb_bit - 1)) || s >= (1 << (nb_bit - 1)), on i64
out_of_range(s, nb_bit, b) ==
    LET p == I64Shl1(nb_bit - 1, b)
        lo == IF IsPanic(p) THEN Panic ELSE I64Checked(ZNeg(p), b)
    IN IF IsPanic(p) \/ IsPanic(lo) THEN "panic"
       ELSE IF ZLt(ZOf(s), lo) \/ ZLe(p, ZOf(s)) THEN "out" ELSE "in"

\* the label a label-bearing line references
label_of(l) ==
    IF l.funcname = "jumpifl" THEN l.typed_args[2].raw_value
    ELSE l.typed_args[1].raw_value

\* what the body of the for loop does with the offset s computed for the
\* label-bearing line l at index j: stop on a panic, widen the slot and
\* break, or record s and go on
RECURSIVE for_pass(_, _, _, _, _, _)
for_body(lines, fc, ld, av, j, b, l, s, chk) ==
    LET nb_bit == av[j].nb_bit
    IN IF chk = "panic"
       THEN [av |-> av, change |-> FALSE, panic |-> "overflow"]
       ELSE IF chk = "out"
       THEN IF nb_bit = 64
            THEN [av |-> av, change |-> FALSE,
                  panic |-> IF l.funcname = "calll" THEN "Address too big"
                            ELSE "Jump too long"]
            ELSE [av |-> [av EXCEPT ![j] = [nb_bit |-> nb_bit * 2, s |-> s]],
                  change |-> TRUE, panic |-> "none"]
       ELSE Value(LAMBDA next : for_pass(lines, fc, ld, next, j + 1, b),
                  [av EXCEPT ![j] = [nb_bit |-> nb_bit, s |-> s]])

\* one run of the for loop inside `loop` (lines 118-168), from index j:
\* the slots after it, whether it broke out with a widening, and the
\* panic that ended it, if one did
for_pass(lines, fc, ld, av, j, b) ==
    IF j >= Len(fc) THEN [av |-> av, change |-> FALSE, panic |-> "none"]
    ELSE IF j >= Len(lines) \/ lines[j + 1].funcname \notin JumpOps
    THEN for_pass(lines, fc, ld, av, j + 1, b)
    ELSE IF label_of(lines[j + 1]) \notin DOMAIN ld
    THEN [av |-> av, change |-> FALSE, panic |-> "Undefined label"]
    ELSE Value(LAMBDA s : Value(LAMBDA chk : for_body(lines, fc, ld, av, j, b,
                                                      lines[j + 1], s, chk),
                                out_of_range(s, av[j].nb_bit, b)),
               IF lines[j + 1].funcname = "calll"
               THEN count_bytes(fc, av, ld[label_of(lines[j + 1])], 0)
               ELSE count_bytes(fc, av, ld[label_of(lines[j + 1])], j))

\* the 3-bit condition code of a jumpifl (bin_condition)
bin_condition(cond, b) == binary_repr(ZNat(cond), 3, FALSE, b)

\* the text emitted for the label-bearing line l, given its encoded
\* condition and address
jump_text(l, tree, slot, cond, addr) ==
    LET head == <<" ">> \o tree[DropLast[l.funcname]]
        mid == IF l.funcname = "jumpifl" THEN <<" ">> \o cond.val ELSE <<>>
    IN IF (l.funcname = "jumpifl" /\ cond.kind # "ok") \/ addr.kind # "ok" THEN PanicR
       ELSE Ok(head \o mid \o <<" ">> \o bit_prefix[slot.nb_bit] \o addr.val)

emit_jump(l, tree, slot, b) ==
    Value(LAMBDA cond : Value(LAMBDA addr : jump_text(l, tree, slot, cond, addr),
                              binary_repr(ZOf(slot.s), slot.nb_bit, TRUE, b)),
          bin_condition(l.typed_args[1].raw_value, b))

\* the emit loop (lines 177-198), from index i
RECURSIVE emit_loop(_, _, _, _, _, _, _)
emit_loop(lines, fc, av, tree, i, out, b) ==
    IF i >= Len(fc) THEN Ok(out)
    ELSE IF fc[i + 1].text = <<>> THEN emit_loop(lines, fc, av, tree, i + 1, out, b)
    ELSE IF i >= Len(lines) THEN PanicR
    ELSE IF lines[i + 1].funcname \notin JumpOps
    THEN Value(LAMBDA o : emit_loop(lines, fc, av, tree, i + 1, o, b),
               out \o <<fc[i + 1].text>>)
    ELSE Value(LAMBDA j : IF j.kind # "ok" THEN PanicR
                          ELSE Value(LAMBDA o : emit_loop(lines, fc, av, tree, i + 1, o, b),
                                     out \o <<j.val>>),
               emit_jump(lines[i + 1], tree, av[i], b))

\* no file: File::create has not run
NoFile == [created |-> FALSE, bytes |-> <<>>, result |-> "none"]

\* the value of a text of eight 0/1 characters
ByteOf(t) == IntOf(BitsOfText(t))

\* u8::from_str_radix(t, 2) of an 8-character text: a character other than
\* 0 and 1 is an error
u8_from_str_radix(t) ==
    IF \A i \in 1..Len(t) : t[i] \in {"0", "1"} THEN Ok(ByteOf(t)) ELSE Err("ParseIntError")

\* usize::to_be_bytes of a 64-bit usize
RECURSIVE ShrBytes(_, _)
ShrBytes(n, k) == IF k = 0 THEN n ELSE ShrBytes(n \div 256, k - 1)
to_be_bytes(n) == [i \in 1..8 |-> ShrBytes(n, 8 - i) % 256]

\* the `for k in 0..q` loop of to_file; f is the file so far
RECURSIVE write_bytes(_, _, _, _)
write_bytes(padded, k, q, f) ==
    IF k >= q THEN [f EXCEPT !.result = "ok"]
    ELSE LET byte == u8_from_str_radix(SubSeq(padded, 8 * k + 1, 8 * (k + 1)))
         IN IF byte.kind # "ok" THEN [f EXCEPT !.result = "err"]
            ELSE write_bytes(padded, k + 1, q,
                             [f EXCEPT !.bytes = f.bytes \o <<byte.val>>])

\* LabelsBinaryBackEnd::to_file over the packets self.base.packets() gave
labels_to_file(packets) ==
    LET bitcode == Join(packets, <<>>)
        text_size == Len(bitcode)
        padded_bitcode == bitcode \o [i \in 1..((8 - (Len(bitcode) % 8)) % 8) |-> "0"]
        q == Len(padded_bitcode) \div 8
    IN write_bytes(padded_bitcode, 0, q,
                   [created |-> TRUE, bytes |-> to_be_bytes(text_size), result |-> "none"])

---------------------------------------------------------------------------
(* src/compiler/util.rs: huffman.  Mnemonics and codes are both Rust       *)
(* Strings and are compared with each other by the heap, so both are text  *)
(* here; a tree is the Vec of (pos, key) pairs.                            *)

\* the characters the mnemonics and codes of the model are written with,
\* in byte order
CharOrder == <<"0", "1", "2", "a", "d", "e", "i", "j", "l", "m", "p", "t", "u">>
CharRank(ch) == CHOOSE i \in 1..Len(CharOrder) : CharOrder[i] = ch

\* String's Ord: byte-wise lexicographic, a proper prefix first
RECURSIVE TextLt(_, _)
TextLt(a, b) ==
    IF b = <<>> THEN FALSE
    ELSE IF a = <<>> THEN TRUE
    ELSE IF Head(a) # Head(b) THEN CharRank(Head(a)) < CharRank(Head(b))
    ELSE TextLt(Tail(a), Tail(b))

\* (String, String)'s Ord
PairLt(x, y) == TextLt(x[1], y[1]) \/ (x[1] = y[1] /\ TextLt(x[2], y[2]))

\* Vec<(String, String)>'s Ord
RECURSIVE VecLt(_, _)
VecLt(u, v) ==
    IF v = <<>> THEN FALSE
    ELSE IF u = <<>> THEN TRUE
    ELSE IF Head(u) # Head(v) THEN PairLt(Head(u), Head(v))
    ELSE VecLt(Tail(u), Tail(v))

\* (usize, Vec<(String, String)>)'s Ord, the order of the heap
ItemLt(x, y) == x.freq < y.freq \/ (x.freq = y.freq /\ VecLt(x.tree, y.tree))

\* a BinaryHeap without Reverse: pop gives the greatest item
heap_max(forest) == CHOOSE x \in forest : \A y \in forest \ {x} : ItemLt(y, x)

\* BinaryHeap<Reverse<_>>::pop: the least item
heap_min(forest) == CHOOSE x \in forest : \A y \in forest \ {x} : ItemLt(x, y)

\* lines 94-96: 0 before the codes of the left tree, 1 before the right's
merge_trees(x, y) ==
    [freq |-> x.freq + y.freq,
     tree |-> [i \in 1..Len(x.tree) |-> <<<<"0">> \o x.tree[i][1], x.tree[i][2]>>]
              \o [i \in 1..Len(y.tree) |-> <<<<"1">> \o y.tree[i][1], y.tree[i][2]>>]]

\* the while loop, lines 89-99
RECURSIVE huffman_loop(_)
huffman_loop(forest) ==
    IF Cardinality(forest) <= 1 THEN forest
    ELSE Value(LAMBDA x :
                 Value(LAMBDA y : Value(LAMBDA f : huffman_loop(f),
                                        (forest \ {x, y}) \cup {merge_trees(x, y)}),
                       heap_min(forest \ {x})),
               heap_min(forest))

\* sorted_by_key(|(pos, _)| pos.len()): a stable sort on the code length
RECURSIVE sorted_by_len(_, _, _)
sorted_by_len(tree, len, maxlen) ==
    IF len > maxlen THEN <<>>
    ELSE SelectSeq(tree, LAMBDA e : Len(e[1]) = len) \o sorted_by_len(tree, len + 1, maxlen)

\* huffman(ctr): the Vec of (code, mnemonic) pairs
huffman(counts) ==
    LET forest == {[freq |-> counts[k], tree |-> <<<<<<>>, k>>>>] : k \in DOMAIN counts}
    IN IF forest = {} THEN <<>>
       ELSE IF Cardinality(forest) = 1
       THEN <<<<<<"0">>, (CHOOSE x \in forest : TRUE).tree[1][2]>>>>
       ELSE Value(LAMBDA tree : sorted_by_len(tree, 0, Len(tree)),
                  (CHOOSE x \in huffman_loop(forest) : TRUE).tree)

\* src/compiler/compileuh.rs, line 205: huffman(&c).into_iter().collect()
\* into a HashMap<String, String>: the first component of each pair is the
\* key of the map, the second the value; a later pair replaces an earlier
\* one with the same key
collect_pairs(pairs) ==
    [k \in {pairs[i][1] : i \in 1..Len(pairs)} |->
        pairs[CHOOSE i \in 1..Len(pairs) :
                 pairs[i][1] = k /\ \A j \in (i + 1)..Len(pairs) : pairs[j][1] # k][2]]

---------------------------------------------------------------------------
(* src/compiler/lexer.rs: Lexer::lex and its .include arm.  A source file  *)
(* is the sequence of its items, an item being an .include directive or    *)
(* any other token; a file name is the sequence of its path components.    *)

IncludeItem(f) == [kind |-> "INCLUDE", value |-> f]
OperationItem == [kind |-> "OPERATION", value |-> "add"]

\* format!("{}/{}", directory, value[9..])
include_filename(directory, value) == <<directory, value>>

\* lines 70-74: a name the set holds gives the empty iterator, any other
\* name is inserted and lexed
lex_enter(incl, name) ==
    IF name \in incl THEN [skipped |-> TRUE, includes |-> incl]
    ELSE [skipped |-> FALSE, includes |-> incl \cup {name}]

\* a call of lex over the source file f under the name name, at its first
\* item
LexCall(f, name) == [file |-> f, name |-> name, pos |-> 1]

\* Token::new(kind, .., name, ..) as far as kind and file name go
Token(kind, name) == [kind |-> kind, name |-> name]

\* the stack once the innermost call has yielded the token of its item:
\* the item is passed, and only the outermost iterator's tokens are kept,
\* for_each(|t| {}) drops the others (line 108)
advance(stack) == [stack EXCEPT ![Len(stack)].pos = stack[Len(stack)].pos + 1]
yielded(stack, toks, kind) ==
    IF Len(stack) = 1 THEN toks \o <<Token(kind, stack[1].name)>> ELSE toks

---------------------------------------------------------------------------
(* src/emu/include/breaks.rs: BreakpointManager.                           *)

\* a registry that add leaves alone
brk_keep(breaks, address) == breaks

BreakpointManager_new == {}

brk_add(breaks, address) == breaks \cup {address}

brk_remove(breaks, address) ==
    IF address \in breaks THEN [breakpoints |-> breaks \ {address}, ret |-> "Ok"]
    ELSE [breakpoints |-> breaks, ret |-> "Err"]

brk_has(breaks, address) == address \in breaks

---------------------------------------------------------------------------
(* What the specifications leave alone.                                    *)

Builds == {"debug", "release"}

IdlePure == call = [fn |-> "none"] /\ ret = [kind |-> "none"]
IdlePipe ==
    /\ huffman_tree = <<>>
    /\ line = [funcname |-> "none"] /\ packet = [kind |-> "none"]
    /\ smem = [counter |-> <<>>] /\ proc = [pc |-> 0] /\ phase = "off"
IdleMem == emem = <<>> /\ eop = [op |-> "none"]
IdleLab ==
    /\ line_gene = <<>> /\ fullcode = <<>> /\ label_dict = <<>>
    /\ addr_values = <<>> /\ lpc = "off" /\ passes = 0 /\ endcode = <<>>
    /\ obj_file = NoFile
IdleHuff == counter_c = <<>> /\ huff_vec = <<>> /\ hufftree = <<>> /\ hpc = "off"
NoneYet == [kind |-> "none", bytes |-> <<>>]
IdleBackEnd ==
    /\ write_mode = "off" /\ be_lines = <<>> /\ be_next = 0 /\ binary = <<>>
    /\ file = NoFile /\ be_failed = {} /\ post_ret = NoneYet /\ be_pc = "off"
IdleLex ==
    /\ lex_files = <<>> /\ includes = {} /\ lex_stack = <<>> /\ tokens = <<>>
    /\ lex_result = "off"
IdleBreaks == breakpoints = {} /\ brk_log = <<>>
IdleCpu ==
    cpu = [h |-> FALSE] /\ cpu_log = [steps |-> 0]
IdleParser ==
    parser = [result |-> "off"] /\ parse_log = <<>>
IdleDisplay ==
    stop_signal = FALSE /\ holder = "none" /\ display = [pc |-> "off"] /\ callers = <<>>

---------------------------------------------------------------------------
(* SpecPure: the encoder functions applied to inputs drawn from sample     *)
(* sets that hold the edges of every range the functions test.             *)

Widths == {1, 3, 8, 16, 32, 64}

SignedSamples ==
    {ZOf(i) : i \in {-32769, -32768, -129, -128, -127, -1, 0, 1, 5, 127, 128, 32767, 32768}}
    \cup {ZNat(SubN(Pow2N(31), NatOf(1))), ZNat(Pow2N(31)),
          [neg |-> TRUE, mag |-> Pow2N(31)],
          ZNat(SubN(Pow2N(63), NatOf(1))), [neg |-> TRUE, mag |-> Pow2N(63)]}

U64Max == SubN(Pow2N(64), NatOf(1))

UnsignedSamples ==
    {NatOf(i) : i \in {0, 1, 2, 5, 7, 8, 255, 256, 65535}}
    \cup {U32Max, Pow2N(32), AddN(Pow2N(32), NatOf(1)), SubN(Pow2N(63), NatOf(1)),
          Pow2N(63), U64Max}

Mnemonics == DOMAIN DEFAULT_OPCODE

PureFrame == UNCHANGED <<build, pipeVars, memVars, labVars, huffVars, beVars, lexVars, brkVars, cpuVars, parVars, gfxVars>>

Call_binary_repr ==
    \E n \in SignedSamples, k \in Widths, s \in BOOLEAN :
        /\ call.fn = "none"
        /\ call' = [fn |-> "binary_repr", n |-> n, k |-> k, signed |-> s]
        /\ ret' = binary_repr(n, k, s, build)
        /\ PureFrame

Call_myasm_binary_repr ==
    \E n \in SignedSamples, k \in Widths, s \in BOOLEAN :
        /\ call.fn = "none"
        /\ call' = [fn |-> "myasm_binary_repr", n |-> n, k |-> k, signed |-> s]
        /\ ret' = myasm_binary_repr(n, k, s, build)
        /\ PureFrame

Call_bin_register ==
    \E v \in UnsignedSamples :
        /\ call.fn = "none"
        /\ call' = [fn |-> "bin_register", v |-> v]
        /\ ret' = bin_register(v, build)
        /\ PureFrame

Call_asm_reg ==
    \E v \in UnsignedSamples :
        /\ call.fn = "none"
        /\ call' = [fn |-> "asm_reg", v |-> v]
        /\ ret' = asm_reg(v, build)
        /\ PureFrame

Call_bin_uconstant ==
    \E v \in UnsignedSamples :
        /\ call.fn = "none"
        /\ call' = [fn |-> "bin_uconstant", v |-> v]
        /\ ret' = bin_uconstant(v, build)
        /\ PureFrame

Call_asm_const ==
    \E v \in UnsignedSamples :
        /\ call.fn = "none"
        /\ call' = [fn |-> "asm_const", v |-> v]
        /\ ret' = asm_const(v, build)
        /\ PureFrame

\* what the two readers make of an encoding: the processor's reader from
\* pc 0 of its memory, the disassembler's from address 0 of a memory that
\* holds the encoding
NotRead == [kind |-> "none"]

ShiftSamples == {NatOf(i) : i \in {0, 1, 2, 5, 31, 32, 63, 64, 65, 255}}

Call_asm_shiftval ==
    \E v \in ShiftSamples :
        \E r \in {asm_shiftval(v, build)} :
            /\ call.fn = "none"
            /\ call' = [fn |-> "asm_shiftval", v |-> v,
                        cpu |-> IF r.kind = "ok"
                                THEN read_shiftval_from_pc(Processor_new.m, Cur(0, 0))
                                ELSE NotRead,
                        dis |-> IF r.kind = "ok"
                                THEN disasm_shift(Holding(r.val), 0, build)
                                ELSE NotRead]
            /\ ret' = r
            /\ PureFrame

SizeSamples == {0, 1, 2, 4, 8, 16, 32, 64, 128}

Call_asm_size ==
    \E s \in SizeSamples :
        \E r \in {asm_size(s)} :
            /\ call.fn = "none"
            /\ call' = [fn |-> "asm_size", s |-> s,
                        cpu |-> IF r.kind = "ok"
                                THEN read_size_from_pc(Processor_new.m, Cur(0, 0))
                                ELSE NotRead,
                        dis |-> IF r.kind = "ok"
                                THEN disasm_size(Holding(r.val), 0, build)
                                ELSE NotRead]
            /\ ret' = r
            /\ PureFrame

\* huffman_tree.get(funcname) for two mnemonics of the default table
Lookup_opcodes ==
    \E a \in Mnemonics, c \in Mnemonics :
        /\ call.fn = "none"
        /\ call' = [fn |-> "opcodes", a |-> a, c |-> c]
        /\ ret' = Ok(<<DEFAULT_OPCODE[a], DEFAULT_OPCODE[c]>>)
        /\ PureFrame

\* the caller takes the result; the next call may follow
Return ==
    /\ call.fn # "none"
    /\ call' = [fn |-> "none"]
    /\ ret' = [kind |-> "none"]
    /\ PureFrame

InitPure ==
    build \in Builds /\ IdlePure /\ IdlePipe /\ IdleMem /\ IdleLab /\ IdleHuff
                     /\ IdleBackEnd /\ IdleLex /\ IdleBreaks /\ IdleCpu /\ IdleParser /\ IdleDisplay

NextPure ==
    \/ Call_binary_repr
    \/ Call_myasm_binary_repr
    \/ Call_bin_register
    \/ Call_asm_reg
    \/ Call_bin_uconstant
    \/ Call_asm_const
    \/ Call_asm_shiftval
    \/ Call_asm_size
    \/ Lookup_opcodes
    \/ Return

SpecPure == InitPure /\ [][NextPure]_vars

---------------------------------------------------------------------------
(* Claims settled under SpecPure.                                          *)

\* C2: the fixed default opcode table is prefix-free: of two distinct
\* entries, neither opcode is a prefix of the other.
C2_DefaultTablePrefixFree ==
    (call.fn = "opcodes" /\ call.a # call.c)
        => ~IsPrefix(ret.val[1], ret.val[2]) /\ ~IsPrefix(ret.val[2], ret.val[1])

InSignedRange(n, k) ==
    ZLe([neg |-> TRUE, mag |-> Pow2N(k - 1)], n) /\ ZLt(n, ZNat(Pow2N(k - 1)))

\* C5: binary_repr(n, k, signed = true) succeeds exactly when
\* -2^(k-1) <= n < 2^(k-1); the result then has k bits whose sign extension
\* is n; outside the range the call fails with the out-of-range error.
C5_SignedEncoding ==
    (call.fn \in {"binary_repr", "myasm_binary_repr"} /\ call.signed) =>
        /\ (ret.kind = "ok") <=> InSignedRange(call.n, call.k)
        /\ ret.kind = "ok" =>
               /\ Len(ret.val) = call.k
               /\ sign_extend(BitsOfText(ret.val), call.k, build) = call.n
        /\ ~InSignedRange(call.n, call.k) => ret = Err("Number not in range")

UconstExpected(v) ==
    IF LeN(v, NatOf(1)) THEN <<"0">> \o PadLeft(BinText(v), 1)
    ELSE IF LeN(v, NatOf(255)) THEN <<"1", "0">> \o PadLeft(BinText(v), 8)
    ELSE IF LeN(v, U32Max) THEN <<"1", "1", "0">> \o PadLeft(BinText(v), 32)
    ELSE <<"1", "1", "1">> \o PadLeft(BinText(v), 64)

\* C6: every unsigned constant 0..2^64-1 is encoded, none is rejected:
\* prefix 0 + 1 bit (v <= 1), 10 + 8 bits (v <= 255), 110 + 32 bits
\* (v <= 2^32-1), 111 + 64 bits (otherwise), the payload big-endian.
C6_UnsignedConstant ==
    (call.fn \in {"bin_uconstant", "asm_const"}) => ret = Ok(UconstExpected(call.v))


\* the 6-bit unsigned payload of a shift value, most significant bit first
Payload6(v) == PadLeft(BinText(v), 6)

\* C24: the shift-value encoder emits the single bit 1 for value 1, the bit
\* 0 followed by the 6-bit unsigned payload for every other value below 64,
\* and fails for values of 64 and above; the processor's and the
\* disassembler's shift-value readers applied to that encoding return the
\* encoded value and consume exactly the emitted number of bits (1 or 7).
C24_ShiftValueRoundTrip ==
    call.fn = "asm_shiftval"
        => /\ call.v = NatOf(1) => ret = Ok(<<"1">>)
           /\ (call.v # NatOf(1) /\ LtN(call.v, NatOf(64)))
                  => ret = Ok(<<"0">> \o Payload6(call.v))
           /\ ~LtN(call.v, NatOf(64)) => ret.kind = "err"
           /\ ret.kind = "ok"
                  => /\ call.cpu.var = IntOf(call.v)
                     /\ call.cpu.pc = Len(ret.val)
                     /\ call.dis # Panic
                     /\ call.dis.val = IntOf(call.v)
                     /\ call.dis.ptr = Len(ret.val)

\* the encoder's half of C24 alone
ShiftValueEncoding ==
    call.fn = "asm_shiftval"
        => /\ call.v = NatOf(1) => ret = Ok(<<"1">>)
           /\ (call.v # NatOf(1) /\ LtN(call.v, NatOf(64)))
                  => ret = Ok(<<"0">> \o Payload6(call.v))
           /\ ~LtN(call.v, NatOf(64)) => ret.kind = "err"

\* C25: the sizes 1, 4, 8, 16, 32, 64 encode to 00, 01, 100, 101, 110, 111,
\* and the processor's and the disassembler's size readers applied to each
\* of these codes return the encoded size and consume exactly the code's
\* length (2 bits for sizes 1 and 4, 3 bits for the others).
C25_SizeRoundTrip ==
    (call.fn = "asm_size" /\ call.s \in {1, 4, 8, 16, 32, 64})
        => /\ ret = Ok(CASE call.s = 1 -> T(<<0, 0>>) [] call.s = 4 -> T(<<0, 1>>)
                        [] call.s = 8 -> T(<<1, 0, 0>>) [] call.s = 16 -> T(<<1, 0, 1>>)
                        [] call.s = 32 -> T(<<1, 1, 0>>) [] call.s = 64 -> T(<<1, 1, 1>>))
           /\ Len(ret.val) = IF call.s \in {1, 4} THEN 2 ELSE 3
           /\ call.cpu.var = call.s
           /\ call.cpu.pc = Len(ret.val)
           /\ call.dis # Panic
           /\ call.dis.val = call.s
           /\ call.dis.ptr = Len(ret.val)

\* the encoder's half of C25 alone
SizeEncoding ==
    (call.fn = "asm_size" /\ call.s \in {1, 4, 8, 16, 32, 64})
        => ret = Ok(CASE call.s = 1 -> T(<<0, 0>>) [] call.s = 4 -> T(<<0, 1>>)
                     [] call.s = 8 -> T(<<1, 0, 0>>) [] call.s = 16 -> T(<<1, 0, 1>>)
                     [] call.s = 32 -> T(<<1, 1, 0>>) [] call.s = 64 -> T(<<1, 1, 1>>))

---------------------------------------------------------------------------
(* Spec: one source line through the cleartext back end, the object file   *)
(* loaded by fill_with_obj_file, and the processor stepping over it.       *)

MaxSteps == 2

RegNums == 0..7

\* the register files a run starts from: Processor::new gives the all-zero
\* file; the others stand for what earlier instructions left in r0 and r1
RegSamples == {<<>>, NatOf(3), NatOf(5), Pow2N(31), LowBits(U64Max, 32)}
RegFiles ==
    {[i \in 0..7 |-> IF i = 0 THEN a ELSE IF i = 1 THEN c ELSE <<>>] :
        a \in RegSamples, c \in RegSamples}

ConstSamples == {<<>>, NatOf(1), NatOf(5), NatOf(255), NatOf(256), Pow2N(32)}

Lines ==
    {MkLine("add2", <<RegArg(a), RegArg(c)>>) : a \in {0, 1, 2, 7}, c \in {0, 1, 2, 7}}
    \cup {MkLine("add2i", <<RegArg(a), OtherArg(k)>>) : a \in {0, 1}, k \in ConstSamples}
    \cup {MkLine("jump", <<OtherArg(k)>>) : k \in {NatOf(9), NatOf(200)}}
    \cup {MkLine("jumpl", <<OtherArg(<<>>)>>), MkLine("return", <<>>)}

\* the opcodes the processor's match arms decode, as a table of their own
CoreOpcodes == [f \in {"add2", "add2i", "jump", "shift"} |-> DEFAULT_OPCODE[f]]

Tables == {DEFAULT_OPCODE, CoreOpcodes}

PrefixFree(t) ==
    \A f \in DOMAIN t, g \in DOMAIN t : f # g => ~IsPrefix(t[f], t[g])

PipeFrame == UNCHANGED <<build, pureVars, memVars, labVars, huffVars, beVars, lexVars, brkVars, cpuVars, parVars, gfxVars>>

\* BaseBackEnd::packets over the line: handle_line's error is dropped and
\* the packet is then the empty string
Assemble ==
    /\ phase = "src"
    /\ packet' = handle_line(line, huffman_tree, build)
    /\ phase' = "obj"
    /\ UNCHANGED <<huffman_tree, line, smem, proc>>
    /\ PipeFrame

\* to_file writes the packet and a newline; the simulator loads that file
ObjText == (IF packet.kind = "ok" THEN packet.val ELSE <<>>) \o <<"\n">>

Load ==
    /\ phase = "obj"
    /\ smem' = fill_with_obj_file(smem, ObjText)
    /\ phase' = "loaded"
    /\ UNCHANGED <<huffman_tree, line, packet, proc>>
    /\ PipeFrame

Step ==
    /\ phase \in {"loaded", "run"}
    /\ ~proc.panicked
    /\ proc.steps < MaxSteps
    /\ proc' = [von_neumann_step(proc, build) EXCEPT !.before = proc.r,
                                                     !.steps = proc.steps + 1]
    /\ phase' = "run"
    /\ UNCHANGED <<huffman_tree, line, packet, smem>>
    /\ PipeFrame

Init ==
    /\ build \in Builds
    /\ huffman_tree \in Tables
    /\ line \in Lines
    /\ packet = [kind |-> "none"]
    /\ smem = Memory_new
    /\ \E rf \in RegFiles : proc = [Processor_new EXCEPT !.r = rf]
    /\ phase = "src"
    /\ IdlePure /\ IdleMem /\ IdleLab /\ IdleHuff /\ IdleBackEnd /\ IdleLex /\ IdleBreaks /\ IdleCpu /\ IdleParser /\ IdleDisplay

Next ==
    \/ Assemble
    \/ Load
    \/ Step

Spec == Init /\ [][Next]_vars


---------------------------------------------------------------------------
(* Claims settled under Spec.                                              *)

\* the register number a register operand of the line names
RegOf(arg) == IntOf(arg.raw_value)

\* a register number on 3 bits, most significant first
RegBits3(i) == T(<<(i \div 4) % 2, (i \div 2) % 2, i % 2>>)

Assembled == phase # "src"
Stepped == phase = "run" /\ proc.steps = 1

\* C9: a register operand is encoded as exactly 3 bits, the register
\* number in big-endian binary: the packet of `add2 ra rb` is the opcode
\* followed by two 3-bit fields (`add2 r1 r2` is 0000 001 010).
C9_RegisterThreeBits ==
    (Assembled /\ line.funcname = "add2")
        => /\ packet.kind = "ok"
           /\ StripSpace(packet.val) =
                  huffman_tree["add2"] \o RegBits3(RegOf(line.typed_args[1]))
                                      \o RegBits3(RegOf(line.typed_args[2]))

\* the operand values the decoder recovered, in the order of the line's
DecodedArgs ==
    CASE proc.dec.mnemonic = "add2" ->
            <<NatOf(proc.dec.regnum1), NatOf(proc.dec.regnum2)>>
      [] proc.dec.mnemonic = "add2i" -> <<NatOf(proc.dec.regnum1), proc.dec.constop>>
      [] proc.dec.mnemonic = "jump" -> <<proc.dec.offset>>
      [] OTHER -> <<>>

\* C1: with a prefix-free table, the first step over the loaded encoding
\* of an instruction decodes the same mnemonic and the same operand
\* values and consumes exactly the emitted bits.
C1_RoundTrip ==
    (Stepped /\ PrefixFree(huffman_tree) /\ packet.kind = "ok"
             /\ line.funcname \in {"add2", "add2i", "jump"})
        => /\ ~proc.panicked
           /\ proc.dec.mnemonic = line.funcname
           /\ DecodedArgs = [i \in 1..Len(line.typed_args) |-> line.typed_args[i].raw_value]
           /\ proc.pc - proc.dec.instr_pc = Len(StripSpace(packet.val))

\* the second operand of an arithmetic line, as a 32-bit value
SecondOperand ==
    IF line.funcname = "add2" THEN proc.before[RegOf(line.typed_args[2])]
    ELSE LowBits(line.typed_args[2].raw_value, WORDSIZE)

\* C10: after add2 / add2i the destination holds the 32-bit sum and the
\* flags describe it: Z = (r = 0), N = (r < 0 as signed), C = (fullr >
\* 2^WORDSIZE), V = signed overflow; from r0 = 5, r1 = 3, `add2 r0 r1`
\* leaves r0 = 8 and all four flags clear.
C10_FlagsAfterArithmetic ==
    (Stepped /\ packet.kind = "ok" /\ line.funcname \in {"add2", "add2i"})
        => LET rd == RegOf(line.typed_args[1])
               a == proc.before[rd]
               c == SecondOperand
               fullr == AddN(a, c)
               r == LowBits(fullr, WORDSIZE)
               sa == BitAt(a, WORDSIZE)
               sc == BitAt(c, WORDSIZE)
           IN /\ ~proc.panicked
              /\ proc.r[rd] = r
              /\ proc.zflag = (r = <<>>)
              /\ proc.nflag = (BitAt(r, WORDSIZE) = 1)
              /\ proc.cflag = LtN(Pow2N(WORDSIZE), fullr)
              /\ "vflag" \in DOMAIN proc
              /\ proc.vflag = (sa = sc /\ BitAt(r, WORDSIZE) # sa)


\* the opcode of the line as a number, its bits read most significant first
OpcodeValue == IntOf(BitsOfText(huffman_tree[line.funcname]))

\* C21: the fetch reads 4 bits and, in the families 1001*, 110* and 111*,
\* as many more as the opcode placed at C[pc] has: the opcode it ends with
\* is the one that was placed there, pop and readze included
C21_OpcodeFetch ==
    (Stepped /\ packet.kind = "ok" /\ huffman_tree = DEFAULT_OPCODE)
        => proc.dec.opcode = OpcodeValue

\* C26: executing jump sets PC to the PC after the operand plus the signed
\* offset, modulo 2^32, and the step does not abort
C26_RelativeJump ==
    (Stepped /\ packet.kind = "ok" /\ line.funcname = "jump")
        => /\ ~proc.panicked
           /\ proc.dec.mnemonic = "jump"
           /\ NatOf(proc.pc) =
                  LowBits(AddN(NatOf(proc.dec.instr_pc + Len(StripSpace(packet.val))),
                               line.typed_args[1].raw_value), WORDSIZE)

C14_SharedProgramCounter ==
    (phase \in {"loaded", "run"} /\ ~proc.panicked) => proc.pc = proc.m.counter[PC]

---------------------------------------------------------------------------
(* SpecMem: writes and reads on the emulator's Memory, a few in a row, at  *)
(* addresses inside a word, at its edges and across two words.             *)

MaxOps == 3

\* two words of text
MemText == 128

\* the arguments of Memory::new: a size, or 0 for the default size
TextArgs == {0, MemText}
StackArgs == {0, 64}

Addrs == {0, 1, 60, 64}
Ns == {1, 8, 64}
Vals == {WordOf(<<>>), WordOf(NatOf(1)), WordOf(NatOf(255)), WordOf(U64Max)}

MemFrame == UNCHANGED <<build, pureVars, pipeVars, labVars, huffVars, beVars, lexVars, brkVars, cpuVars, parVars, gfxVars>>

NoOp == [op |-> "none", address |-> 0, n |-> 0, value |-> {}, panicked |-> FALSE]
Last(o) == [op |-> o.op, address |-> o.address, n |-> o.n, value |-> o.value,
            panicked |-> o.panicked]

EmuWrite ==
    \E a \in Addrs, n \in Ns, v \in Vals :
        LET r == emu_write(emem, a, v, n, build)
        IN /\ eop.count < MaxOps /\ ~eop.panicked
           /\ emem' = IF IsPanic(r) THEN emem ELSE r
           /\ eop' = [op |-> "write", address |-> a, n |-> n, value |-> v,
                      panicked |-> IsPanic(r), val |-> {},
                      count |-> eop.count + 1, prev |-> Last(eop)]
           /\ MemFrame

EmuRead ==
    \E a \in Addrs, n \in Ns :
        LET r == emu_read(emem, a, n, build)
        IN /\ eop.count < MaxOps /\ ~eop.panicked
           /\ emem' = emem
           /\ eop' = [op |-> "read", address |-> a, n |-> n, value |-> {},
                      panicked |-> IsPanic(r),
                      val |-> IF IsPanic(r) THEN {} ELSE r.val,
                      count |-> eop.count + 1, prev |-> Last(eop)]
           /\ MemFrame

InitMem ==
    /\ build \in Builds
    /\ \E text \in TextArgs, stack \in StackArgs : emem = emu_Memory_new(text, stack, 0, 0)
    /\ eop = [NoOp EXCEPT !.op = "none"] @@ [val |-> {}, count |-> 0, prev |-> NoOp]
    /\ IdlePure /\ IdlePipe /\ IdleLab /\ IdleHuff /\ IdleBackEnd /\ IdleLex /\ IdleBreaks /\ IdleCpu /\ IdleParser /\ IdleDisplay

NextMem ==
    \/ EmuWrite
    \/ EmuRead

SpecMem == InitMem /\ [][NextMem]_vars

---------------------------------------------------------------------------
(* Claims settled under SpecMem.                                           *)

InMemory(o) == o.n >= 1 /\ o.n <= 64 /\ o.address + o.n <= emem.memsize

\* C4: a write of v on n bits at address a succeeds, and a read of n bits
\* at a right after it returns v mod 2^n, for 1 <= n <= 64, also across a
\* word boundary and for n = 64.
C4_ReadAfterWrite ==
    /\ (eop.op = "write" /\ InMemory(eop)) => ~eop.panicked
    /\ (eop.op = "read" /\ eop.prev.op = "write" /\ InMemory(eop)
            /\ eop.prev.address = eop.address /\ eop.prev.n = eop.n)
          => ~eop.panicked /\ eop.val = {i \in eop.prev.value : i < eop.n}


\* the counters C[pc], C[sp], C[a0], C[a1] of a Memory; none when the
\* struct has no such field
Counters(me) == IF "counter" \in DOMAIN me THEN me.counter ELSE <<>>

\* C13: every read or write of n bits goes through one of the counters of
\* the Memory, which advances by n while the other three keep their
\* values, and n is at most 64
C13_CounterAdvance ==
    [][(eop'.count = eop.count + 1 /\ ~eop'.panicked) =>
          /\ eop'.n <= 64
          /\ \E c \in DOMAIN Counters(emem) :
                /\ Counters(emem')[c] = Counters(emem)[c] + eop'.n
                /\ \A d \in DOMAIN Counters(emem) \ {c} :
                      Counters(emem')[d] = Counters(emem)[d]]_vars

\* C15: the four stored segment sizes add up to the stored memsize, and the
\* backing store holds memsize bits, also when an argument of new was 0 and
\* the default size was stored for the segment
C15_SegmentSum ==
    /\ emem.text + emem.stack + emem.data + emem.vram = emem.memsize
    /\ 64 * Len(emem.mem) = emem.memsize

---------------------------------------------------------------------------
(* SpecLabels: LabelsClearTextBackEnd::packets over a short instruction    *)
(* stream, with the default opcode table.                                  *)

MaxLines == 5

LabelA == NatOf(1)
LabelB == NatOf(2)

\* add3i r0 r0 18446744073709551615 is 43 characters of text: three of
\* them put a reference beyond the 8-bit range
LineAlphabet ==
    {MkLine("label", <<OtherArg(LabelA)>>), MkLine("label", <<OtherArg(LabelB)>>),
     MkLine("jumpl", <<OtherArg(LabelA)>>), MkLine("jumpl", <<OtherArg(LabelB)>>),
     MkLine("calll", <<OtherArg(LabelA)>>),
     MkLine("jumpifl", <<OtherArg(NatOf(1)), OtherArg(LabelA)>>),
     MkLine("add2", <<RegArg(0), RegArg(0)>>),
     MkLine("add3i", <<RegArg(0), RegArg(0), OtherArg(U64Max)>>)}

LabFrame == UNCHANGED <<build, pureVars, pipeVars, memVars, huffVars, beVars, lexVars, brkVars, cpuVars, parVars, gfxVars>>

\* packets(), lines 102-113: get_fullcode, get_label_pos, the slots
Segment ==
    \E fc \in {get_fullcode(line_gene, DEFAULT_OPCODE, build)} :
       /\ lpc = "start"
       /\ IF fc.kind # "ok"
          THEN /\ lpc' = "unwrap"
               /\ UNCHANGED <<fullcode, label_dict, addr_values>>
          ELSE /\ fullcode' = fc.val
               /\ label_dict' = get_label_pos(line_gene, fc.val)
               /\ addr_values' = initial_slots(line_gene, fc.val)
               /\ lpc' = "loop"
       /\ UNCHANGED <<line_gene, passes, endcode, obj_file>>
       /\ LabFrame

\* one iteration of `loop` (lines 115-173)
WidenPass ==
    \E r \in {for_pass(line_gene, fullcode, label_dict, addr_values, 0, build)} :
       /\ lpc = "loop"
       /\ passes' = passes + 1
       /\ addr_values' = r.av
       /\ lpc' = IF r.panic # "none" THEN r.panic
                 ELSE IF r.change THEN "loop" ELSE "emit"
       /\ UNCHANGED <<line_gene, fullcode, label_dict, endcode, obj_file>>
       /\ LabFrame

\* the emit loop (lines 175-200)
Emit ==
    \E e \in {emit_loop(line_gene, fullcode, addr_values, DEFAULT_OPCODE, 0, <<>>,
                        build)} :
       /\ lpc = "emit"
       /\ endcode' = IF e.kind # "ok" THEN <<>> ELSE e.val
       /\ lpc' = IF e.kind # "ok" THEN "unwrap" ELSE "done"
       /\ UNCHANGED <<line_gene, fullcode, label_dict, addr_values, passes, obj_file>>
       /\ LabFrame

\* LabelsBinaryBackEnd::to_file once self.base.packets() has returned
ToFile ==
    /\ lpc = "done"
    /\ obj_file = NoFile
    /\ obj_file' = labels_to_file(endcode)
    /\ UNCHANGED <<line_gene, fullcode, label_dict, addr_values, lpc, passes, endcode>>
    /\ LabFrame

InitLabels ==
    /\ build \in Builds
    /\ \E n \in 1..MaxLines : line_gene \in [1..n -> LineAlphabet]
    /\ fullcode = <<>> /\ label_dict = <<>> /\ addr_values = <<>>
    /\ lpc = "start" /\ passes = 0 /\ endcode = <<>>
    /\ obj_file = NoFile
    /\ IdlePure /\ IdlePipe /\ IdleMem /\ IdleHuff /\ IdleBackEnd /\ IdleLex /\ IdleBreaks /\ IdleCpu /\ IdleParser /\ IdleDisplay

NextLabels ==
    \/ Segment
    \/ WidenPass
    \/ Emit
    \/ ToFile

SpecLabels == InitLabels /\ [][NextLabels]_vars

---------------------------------------------------------------------------
(* Claims about the label resolver, checked under SpecLabels.  Lines are   *)
(* numbered from 1 here; the slot of line k is addr_values[k - 1].         *)

JumpLines == {k \in 1..Len(line_gene) : line_gene[k].funcname \in JumpOps}
DefLines(label) ==
    {k \in 1..Len(line_gene) : /\ line_gene[k].funcname = "label"
                               /\ line_gene[k].typed_args[1].raw_value = label}
AllReferencedDefined == \A j \in JumpLines : DefLines(label_of(line_gene[j])) # {}

Halted == lpc \notin {"start", "loop", "emit"}
JumpTooFar == {"Jump too long", "Address too big"}

\* C3: on a stream whose referenced labels are all defined the widening loop
\* halts with a result or with JumpTooFar and with nothing else; every slot
\* has one of the widths 8, 16, 32, 64; and the loop makes at most 4 passes
\* per label-bearing instruction (one pass when there is none)
C3_ResolverTerminates ==
    AllReferencedDefined =>
        /\ passes <= Max(1, 4 * Cardinality(JumpLines))
        /\ \A j \in DOMAIN addr_values : addr_values[j].nb_bit \in {8, 16, 32, 64}
        /\ Halted => lpc \in {"done"} \cup JumpTooFar

\* the bits line k occupies in the output, as the resolver counts them: the
\* text of an encoded instruction without its spaces, nothing for a label,
\* and opcode, condition and address field for a label-bearing line
LineBits(k) ==
    LET l == line_gene[k]
    IN IF l.funcname = "label" THEN 0
       ELSE IF l.funcname \in JumpOps
       THEN Len(DEFAULT_OPCODE[DropLast[l.funcname]])
            + (IF l.funcname = "jumpifl" THEN 3 ELSE 0)
            + bit_cost[addr_values[k - 1].nb_bit]
       ELSE Len(StripSpace(handle_line(l, DEFAULT_OPCODE, build).val))

RECURSIVE SumBits(_, _)
SumBits(lo, hi) == IF lo > hi THEN 0 ELSE LineBits(lo) + SumBits(lo + 1, hi)

\* the signed distance from the label-bearing line j to the definition of
\* its label (from position 0 for calll), with the final widths
FinalOffset(j) ==
    LET defs == DefLines(label_of(line_gene[j]))
        i == CHOOSE k \in defs : \A m \in defs : k <= m
    IN IF line_gene[j].funcname = "calll" THEN SumBits(1, i - 1)
       ELSE IF j < i THEN SumBits(j + 1, i - 1)
       ELSE 0 - SumBits(i, j)

SmallestWidth(s) ==
    IF -128 <= s /\ s < 128 THEN 8
    ELSE IF -32768 <= s /\ s < 32768 THEN 16
    ELSE 32

\* C7: when resolution succeeds, every label-bearing instruction has an
\* address slot, and the width of the slot is the smallest of 8, 16, 32, 64
\* whose signed range holds the instruction's final offset
C7_SmallestViableWidth ==
    (lpc = "done" /\ AllReferencedDefined) =>
        \A j \in JumpLines :
            /\ (j - 1) \in DOMAIN addr_values
            /\ addr_values[j - 1].nb_bit = SmallestWidth(FinalOffset(j))

BackwardJump ==
    <<MkLine("label", <<OtherArg(LabelA)>>), MkLine("add2", <<RegArg(0), RegArg(0)>>),
      MkLine("jumpl", <<OtherArg(LabelA)>>)>>

\* C8: for `start: add2 r0 r0; jumpl start` the resolver halts with a
\* result, the slot of the jump is (8, -7) once the widening loop is over,
\* and the output holds the jump as opcode 1010, prefix 0, field 11111001
C8_BackwardJump ==
    line_gene = BackwardJump =>
        /\ Halted => lpc = "done"
        /\ lpc \in {"emit", "done"} =>
              /\ 2 \in DOMAIN addr_values
              /\ addr_values[2] = [nb_bit |-> 8, s |-> -7]
        /\ lpc = "done" =>
              \E k \in 1..Len(endcode) :
                  StripSpace(endcode[k]) = T(<<1, 0, 1, 0, 0, 1, 1, 1, 1, 1, 0, 0, 1>>)

\* the labels the stream defines, and phase 1 done: get_fullcode and
\* get_label_pos have returned
DefinedLabels ==
    {line_gene[k].typed_args[1].raw_value :
        k \in {m \in 1..Len(line_gene) : line_gene[m].funcname = "label"}}
FirstDef(label) == CHOOSE k \in DefLines(label) : \A m \in DefLines(label) : k <= m
PhaseOneDone == lpc \notin {"start", "unwrap"}

\* the index in fullcode of the entry get_fullcode pushes at line k: one
\* entry opens the list, a label pushes one more, a label-bearing
\* instruction two
RECURSIVE PushedBefore(_)
PushedBefore(k) ==
    IF k <= 1 THEN 1
    ELSE PushedBefore(k - 1)
         + (IF line_gene[k - 1].funcname = "label" THEN 1
            ELSE IF line_gene[k - 1].funcname \in JumpOps THEN 2 ELSE 0)

\* the position of the definition of a label: its instruction index, or
\* the index of its entry in fullcode
DefPositions(label) == {FirstDef(label) - 1, PushedBefore(FirstDef(label))}

\* C22: after phase 1 the label table has one entry for every label
\* definition of the stream, mapping the label's name to the position of
\* its own definition, counted in instructions or in entries of fullcode,
\* whichever the table is read in; two different labels defined
\* at different positions map to two different positions; and every
\* label-bearing instruction is looked up under the name it references, so
\* a reference to a defined label is never reported as undefined.
C22_LabelTable ==
    PhaseOneDone
        => /\ DOMAIN label_dict = DefinedLabels
           /\ \A x \in DefinedLabels : label_dict[x] \in DefPositions(x)
           /\ \A x \in DefinedLabels, y \in DefinedLabels :
                  (x # y /\ FirstDef(x) # FirstDef(y)) => label_dict[x] # label_dict[y]
           /\ AllReferencedDefined => lpc # "Undefined label"

\* s lies in the signed range of a w-bit field
FitsWidth(s, w) ==
    IF w = 8 THEN -128 <= s /\ s < 128
    ELSE IF w = 16 THEN -32768 <= s /\ s < 32768
    ELSE w \in {32, 64}

\* the text emitted for the label-bearing line j starts with its opcode and
\* has the bits of opcode, condition and an address field of bit_cost(w) bits
EmittedWithField(j) ==
    \E k \in 1..Len(endcode) :
        /\ IsPrefix(DEFAULT_OPCODE[DropLast[line_gene[j].funcname]], StripSpace(endcode[k]))
        /\ Len(StripSpace(endcode[k])) = LineBits(j)

\* C23: when the widening loop exits without error, for every
\* label-bearing instruction the recorded pair (w, s) satisfies
\* -2^(w-1) <= s < 2^(w-1), s is the signed distance computed with the
\* final widths of all address slots, and the emitted address field of
\* that instruction has exactly bit_cost(w) bits.
C23_FixpointConsistency ==
    (lpc \in {"emit", "done"} /\ AllReferencedDefined)
        => \A j \in JumpLines :
              /\ (j - 1) \in DOMAIN addr_values
              /\ FitsWidth(addr_values[j - 1].s, addr_values[j - 1].nb_bit)
              /\ addr_values[j - 1].s = FinalOffset(j)
              /\ lpc = "done" => EmittedWithField(j)

\* the instruction bits of the resolved program, separators left out
InstructionBits == StripSpace(Join(endcode, <<>>))

\* the bytes that hold the bits t in order, the last one filled with zeros
RECURSIVE PackedBytes(_)
PackedBytes(t) ==
    IF t = <<>> THEN <<>>
    ELSE IF Len(t) <= 8 THEN <<ByteOf(t \o [i \in 1..(8 - Len(t)) |-> "0"])>>
    ELSE <<ByteOf(SubSeq(t, 1, 8))>> \o PackedBytes(SubSeq(t, 9, Len(t)))

\* C16: the packed file of a resolved program of B instruction bits is the
\* 8-byte big-endian header B, separators not counted, followed by the
\* ceil(B/8) bytes that hold the B bits in order, the last byte filled up
\* with zero bits
C16_ObjectFileLayout ==
    obj_file.created =>
        /\ obj_file.result = "ok"
        /\ obj_file.bytes = to_be_bytes(Len(InstructionBits)) \o PackedBytes(InstructionBits)

---------------------------------------------------------------------------
(* SpecHuff: the generate_tree branch of compile_asm                       *)
(* (src/compiler/compileuh.rs, lines 193-210): the counter starts at 0 for *)
(* the mnemonics of the opcode table, count_operations counts the lines,   *)
(* and huffman's pairs are collected into the table of the back-end.       *)

MaxCounted == 3

HuffKeys ==
    {<<"a", "d", "d", "2">>, <<"a", "d", "d", "2", "i">>, <<"j", "u", "m", "p">>,
     <<"l", "e", "t">>}

HuffFrame == UNCHANGED <<build, pureVars, pipeVars, memVars, labVars, beVars, lexVars, brkVars, cpuVars, parVars, gfxVars>>

RECURSIVE SumOver(_, _)
SumOver(f, S) ==
    IF S = {} THEN 0
    ELSE LET k == CHOOSE x \in S : TRUE IN f[k] + SumOver(f, S \ {k})

\* count_operations, one line: *c.entry(funcname).or_insert(0) += 1
CountOperation ==
    /\ hpc = "count"
    /\ SumOver(counter_c, DOMAIN counter_c) < MaxCounted
    /\ \E funcname \in HuffKeys :
          counter_c' = [k \in DOMAIN counter_c \cup {funcname} |->
                          IF k = funcname
                          THEN (IF k \in DOMAIN counter_c THEN counter_c[k] ELSE 0) + 1
                          ELSE counter_c[k]]
    /\ UNCHANGED <<huff_vec, hufftree, hpc>>
    /\ HuffFrame

\* hufftree = huffman(&c).into_iter().collect()
GenerateTree ==
    /\ hpc = "count"
    /\ \E pairs \in {huffman(counter_c)} :
          /\ huff_vec' = pairs
          /\ hufftree' = collect_pairs(pairs)
    /\ hpc' = "done"
    /\ UNCHANGED counter_c
    /\ HuffFrame

\* lines 197-202: c holds 0 for every mnemonic of the opcode table
InitHuff ==
    /\ build \in Builds
    /\ \E table_keys \in SUBSET HuffKeys : counter_c = [k \in table_keys |-> 0]
    /\ huff_vec = <<>> /\ hufftree = <<>> /\ hpc = "count"
    /\ IdlePure /\ IdlePipe /\ IdleMem /\ IdleLab /\ IdleBackEnd /\ IdleLex /\ IdleBreaks /\ IdleCpu /\ IdleParser /\ IdleDisplay

NextHuff ==
    \/ CountOperation
    \/ GenerateTree

SpecHuff == InitHuff /\ [][NextHuff]_vars

---------------------------------------------------------------------------
(* Claims about the Huffman table, checked under SpecHuff.                 *)

MaxCodeLen == 3

IsBitText(t) == t # <<>> /\ \A i \in 1..Len(t) : t[i] \in {"0", "1"}
PairsOf(k) == {i \in 1..Len(huff_vec) : huff_vec[i][2] = k}
CodeOf(k) == huff_vec[CHOOSE i \in PairsOf(k) : TRUE][1]

\* huffman's pairs by themselves: one non-empty code for every mnemonic,
\* no code a prefix of another
PairsArePrefixCode ==
    /\ \A k \in DOMAIN counter_c : Cardinality(PairsOf(k)) = 1 /\ IsBitText(CodeOf(k))
    /\ \A k, m \in DOMAIN counter_c : k # m => ~IsPrefix(CodeOf(k), CodeOf(m))

\* C11: once the table is generated from a count map with at least two
\* mnemonics, huffman has given every mnemonic exactly one non-empty bit
\* string, the table of the back-end maps every mnemonic to that string, and
\* no opcode of the table is a prefix of another; with a single mnemonic the
\* code is 0
C11_HuffmanPrefixCode ==
    hpc = "done" =>
        /\ Cardinality(DOMAIN counter_c) = 1 =>
              \A k \in DOMAIN counter_c : huff_vec = <<<<<<"0">>, k>>>>
        /\ Cardinality(DOMAIN counter_c) >= 2 =>
              /\ PairsArePrefixCode
              /\ \A k \in DOMAIN counter_c :
                    k \in DOMAIN hufftree /\ hufftree[k] = CodeOf(k)
              /\ \A k, m \in DOMAIN counter_c :
                    k # m => ~IsPrefix(hufftree[k], hufftree[m])

\* the bit strings of 1 to MaxCodeLen bits
BitTexts == UNION {[1..n -> {"0", "1"}] : n \in 1..MaxCodeLen}

\* every prefix-free code for n mnemonics, the mnemonics numbered 1..n
PrefixFreeCodes ==
    [n \in 0..Cardinality(HuffKeys) |->
        {f \in [1..n -> BitTexts] :
            \A i, j \in 1..n : i # j => ~IsPrefix(f[i], f[j])}]

\* the code lengths of the prefix-free codes for n mnemonics
LengthProfiles ==
    [n \in 0..Cardinality(HuffKeys) |->
        {[i \in 1..n |-> Len(f[i])] : f \in PrefixFreeCodes[n]}]

RECURSIVE Numbered(_)
Numbered(S) ==
    IF S = {} THEN <<>>
    ELSE LET k == CHOOSE x \in S : TRUE IN <<k>> \o Numbered(S \ {k})

\* count times code length, summed over the mnemonics keys[i..]
RECURSIVE WeightedLen(_, _, _)
WeightedLen(keys, lens, i) ==
    IF i > Len(keys) THEN 0
    ELSE counter_c[keys[i]] * lens[i] + WeightedLen(keys, lens, i + 1)

HuffmanLen ==
    LET keys == Numbered(DOMAIN counter_c)
    IN WeightedLen(keys, [i \in 1..Len(keys) |-> Len(CodeOf(keys[i]))], 1)

\* C12: the weighted code length (count times code length, summed over the
\* mnemonics) of huffman's code is at most that of every prefix-free code
\* over the same mnemonics
C12_HuffmanOptimal ==
    hpc = "done" =>
        \E keys \in {Numbered(DOMAIN counter_c)} : \E mine \in {HuffmanLen} :
            \A lens \in LengthProfiles[Len(keys)] : mine <= WeightedLen(keys, lens, 1)

\* a table made from four mnemonics with the counts 2, 1, 0, 0: the codes
\* have 1, 2, 3 and 3 bits
C12_Witness ==
    /\ hpc = "done"
    /\ Cardinality(DOMAIN counter_c) = 4
    /\ {counter_c[k] : k \in DOMAIN counter_c} = {0, 1, 2}
    /\ {Len(huff_vec[i][1]) : i \in 1..Len(huff_vec)} = {1, 2, 3}

---------------------------------------------------------------------------
(* SpecBackEnd: to_file of the cleartext and of the binary back end over a *)
(* stream of lines, one packet at a time, then post_packets.               *)

MaxBeLines == 3

\* lines of 20 and of 7 bits, a line with a constant operand, and a line
\* whose mnemonic the table does not hold
BeAlphabet ==
    {MkLine("add2", <<RegArg(0), RegArg(1)>>), MkLine("return", <<>>),
     MkLine("add2i", <<RegArg(0), OtherArg(NatOf(5))>>),
     MkLine("jumpl", <<OtherArg(LabelA)>>)}

BeFrame == UNCHANGED <<build, pureVars, pipeVars, memVars, labVars, huffVars, lexVars, brkVars, cpuVars, parVars, gfxVars>>

\* File::create (back_end.rs lines 243 and 305)
Create ==
    /\ be_pc = "start"
    /\ file' = [NoFile EXCEPT !.created = TRUE]
    /\ be_pc' = "lines"
    /\ UNCHANGED <<write_mode, be_lines, be_next, binary, be_failed, post_ret>>
    /\ BeFrame

\* one packet of packets() and its write: handle_line(line).ok(), the
\* packet popped or String::new(), writeln! or write_all
Packet ==
    /\ be_pc = "lines"
    /\ be_next <= Len(be_lines)
    /\ \E r \in {IF write_mode = "wb"
                  THEN binary_handle_line(binary, be_lines[be_next], DEFAULT_OPCODE,
                                          build)
                  ELSE cleartext_handle_line(binary, be_lines[be_next], DEFAULT_OPCODE,
                                             build)} :
          IF r.kind = "panic"
          THEN /\ be_pc' = "panic"
               /\ UNCHANGED <<be_next, binary, file, be_failed>>
          ELSE /\ be_pc' = "lines"
               /\ be_next' = be_next + 1
               /\ binary' = r.binary
               /\ be_failed' = IF r.kind = "err" THEN be_failed \cup {be_next}
                               ELSE be_failed
               /\ file' = [file EXCEPT !.bytes =
                               file.bytes \o as_bytes(IF write_mode = "wb" THEN r.packet
                                                      ELSE r.packet \o <<"\n">>)]
    /\ UNCHANGED <<write_mode, be_lines, post_ret>>
    /\ BeFrame

\* to_file returns Ok(())
Finish ==
    /\ be_pc = "lines"
    /\ be_next > Len(be_lines)
    /\ file' = [file EXCEPT !.result = "ok"]
    /\ be_pc' = "written"
    /\ UNCHANGED <<write_mode, be_lines, be_next, binary, be_failed, post_ret>>
    /\ BeFrame

\* post_packets: None for the cleartext back end
PostPackets ==
    \E r \in {IF write_mode = "wb" THEN binary_post_packets(binary)
               ELSE [kind |-> "None", bytes |-> <<>>, binary |-> binary]} :
       /\ be_pc = "written"
       /\ post_ret' = [kind |-> r.kind, bytes |-> r.bytes]
       /\ binary' = r.binary
       /\ be_pc' = IF r.kind = "panic" THEN "panic" ELSE "done"
       /\ UNCHANGED <<write_mode, be_lines, be_next, file, be_failed>>
       /\ BeFrame

InitBackEnd ==
    /\ build \in Builds
    /\ write_mode \in {"w+", "wb"}
    /\ \E n \in 1..MaxBeLines : be_lines \in [1..n -> BeAlphabet]
    /\ be_next = 1 /\ binary = <<>> /\ file = NoFile /\ be_failed = {}
    /\ post_ret = NoneYet /\ be_pc = "start"
    /\ IdlePure /\ IdlePipe /\ IdleMem /\ IdleLab /\ IdleHuff /\ IdleLex /\ IdleBreaks /\ IdleCpu /\ IdleParser /\ IdleDisplay

NextBackEnd ==
    \/ Create
    \/ Packet
    \/ Finish
    \/ PostPackets

SpecBackEnd == InitBackEnd /\ [][NextBackEnd]_vars

---------------------------------------------------------------------------
(* Claims about the back ends, checked under SpecBackEnd.                  *)

\* every line of the stream has a cleartext encoding
AllEncode ==
    \A k \in 1..Len(be_lines) : handle_line(be_lines[k], DEFAULT_OPCODE, build).kind = "ok"

\* the cleartext of the first k lines with the whitespace taken out
RECURSIVE ClearBits(_)
ClearBits(k) ==
    IF k = 0 THEN <<>>
    ELSE ClearBits(k - 1)
         \o StripSpace(handle_line(be_lines[k], DEFAULT_OPCODE, build).val)

\* the whole bytes of the bits t, and the bits left over
WholeBytes(t) == PackedBytes(SubSeq(t, 1, 8 * (Len(t) \div 8)))
LeftOver(t) == SubSeq(t, 8 * (Len(t) \div 8) + 1, Len(t))

\* C17: the bytes the binary back end emits line after line, followed by
\* those of post_packets, are the cleartext bitstream without its
\* whitespace cut into bytes, the last byte padded with zero bits; after
\* every handle_line fewer than 8 bits stay buffered, and a line that
\* completes no byte emits none
C17_PackedRefinesCleartext ==
    (write_mode = "wb" /\ AllEncode) =>
        /\ be_pc # "panic"
        /\ be_pc \in {"lines", "written"} =>
              /\ Len(binary) < 8
              /\ binary = LeftOver(ClearBits(be_next - 1))
              /\ file.bytes = WholeBytes(ClearBits(be_next - 1))
        /\ be_pc = "done" =>
              file.bytes \o post_ret.bytes = PackedBytes(ClearBits(Len(be_lines)))

\* C18: when the encoding of a line of the stream fails, no output
\* exists: no file is written with the failing line dropped or replaced by
\* an empty packet, and no partial file remains
C18_ErrorsAbortOutput == be_failed # {} => ~file.created

---------------------------------------------------------------------------
(* SpecLex: compile_asm's call of lex over the main file, item by item.    *)

MaxItems == 2

FileNames == {"main", "a", "b"}
Directory == "dir"
Items == {IncludeItem(f) : f \in FileNames} \cup {OperationItem}

\* the file names compile_asm may be given for the main file: the bare name
\* or the path an .include of it would build
MainNames == {<<"main">>, include_filename(Directory, "main")}

LexFrame == UNCHANGED <<build, pureVars, pipeVars, memVars, labVars, huffVars, beVars,
                        brkVars, cpuVars, parVars, gfxVars>>

Top == lex_stack[Len(lex_stack)]
AtItem == lex_stack # <<>> /\ Top.pos <= Len(lex_files[Top.file])
Item == lex_files[Top.file][Top.pos]

\* compile_asm line 187: lex(&s, filename, directory)
Lex ==
    /\ lex_result = "none"
    /\ lex_stack = <<>>
    /\ \E name \in MainNames :
          /\ includes' = lex_enter(includes, name).includes
          /\ lex_stack' = <<LexCall("main", name)>>
    /\ lex_result' = "lexing"
    /\ UNCHANGED <<lex_files, tokens>>
    /\ LexFrame

\* the arms of the match other than INCLUDE (lines 88-96, 111)
YieldToken ==
    /\ lex_result = "lexing"
    /\ AtItem
    /\ Item.kind # "INCLUDE"
    /\ tokens' = yielded(lex_stack, tokens, Item.kind)
    /\ lex_stack' = advance(lex_stack)
    /\ UNCHANGED <<lex_files, includes, lex_result>>
    /\ LexFrame

\* the INCLUDE arm (lines 97-108) up to the recursive call of lex: a name
\* the set holds gives nothing to iterate and the INCLUDE token follows
\* (line 109)
Include ==
    /\ lex_result = "lexing"
    /\ AtItem
    /\ Item.kind = "INCLUDE"
    /\ \E e \in {lex_enter(includes, include_filename(Directory, Item.value))} :
          /\ includes' = e.includes
          /\ IF e.skipped
             THEN /\ tokens' = yielded(lex_stack, tokens, "INCLUDE")
                  /\ lex_stack' = advance(lex_stack)
             ELSE /\ tokens' = tokens
                  /\ lex_stack' = lex_stack \o
                         <<LexCall(Item.value, include_filename(Directory, Item.value))>>
    /\ UNCHANGED <<lex_files, lex_result>>
    /\ LexFrame

\* the iterator of the innermost call is exhausted: the including call
\* yields its INCLUDE token (line 109), the outermost call ends the lexing
EndOfFile ==
    /\ lex_result = "lexing"
    /\ lex_stack # <<>>
    /\ ~AtItem
    /\ IF Len(lex_stack) = 1
       THEN /\ lex_stack' = <<>>
            /\ tokens' = tokens
            /\ lex_result' = "ok"
       ELSE /\ tokens' = yielded(SubSeq(lex_stack, 1, Len(lex_stack) - 1), tokens,
                                 "INCLUDE")
            /\ lex_stack' = advance(SubSeq(lex_stack, 1, Len(lex_stack) - 1))
            /\ lex_result' = lex_result
    /\ UNCHANGED <<lex_files, includes>>
    /\ LexFrame

InitLex ==
    /\ build \in Builds
    /\ lex_files \in [FileNames -> UNION {[1..n -> Items] : n \in 0..MaxItems}]
    /\ lex_files["main"] # <<>>
    /\ includes = {} /\ lex_stack = <<>> /\ tokens = <<>> /\ lex_result = "none"
    /\ IdlePure /\ IdlePipe /\ IdleMem /\ IdleLab /\ IdleHuff /\ IdleBackEnd /\ IdleBreaks /\ IdleCpu /\ IdleParser /\ IdleDisplay

NextLex ==
    \/ Lex
    \/ YieldToken
    \/ Include
    \/ EndOfFile

SpecLex == InitLex /\ [][NextLex]_vars

\* the source files whose lexing is in progress
OnStack == {lex_stack[i].file : i \in 1..Len(lex_stack)}

\* C19: an .include that names a file on the include stack ends the lexing
\* with CircularInclude, and an .include of a file that was lexed to its
\* end before is passed over without a token of that file
C19_IncludeCycleDetected ==
    [][(lex_result = "lexing" /\ AtItem /\ Item.kind = "INCLUDE") =>
          /\ Item.value \in OnStack => lex_result' = "CircularInclude"
          /\ (Item.value \notin OnStack
                /\ include_filename(Directory, Item.value) \in includes) =>
                /\ lex_result' = "lexing"
                /\ lex_stack' = advance(lex_stack)
                /\ tokens' = yielded(lex_stack, tokens, "INCLUDE")]_vars

---------------------------------------------------------------------------
(* SpecBreaks: calls of add, remove and has on one BreakpointManager.      *)

MaxCalls == 4

\* the addresses of test_breakpoint_management: 0x1000, 0x2000, 0x3000
Addresses == {4096, 8192, 12288}

BrkFrame == UNCHANGED <<build, pureVars, pipeVars, memVars, labVars, huffVars, beVars,
                        lexVars, cpuVars, parVars, gfxVars>>

Called(op, address, r) == [op |-> op, address |-> address, ret |-> r]

Add ==
    /\ Len(brk_log) < MaxCalls
    /\ \E a \in Addresses :
          /\ breakpoints' = brk_add(breakpoints, a)
          /\ brk_log' = Append(brk_log, Called("add", a, "unit"))
    /\ BrkFrame

Remove ==
    /\ Len(brk_log) < MaxCalls
    /\ \E a \in Addresses :
          /\ breakpoints' = brk_remove(breakpoints, a).breakpoints
          /\ brk_log' = Append(brk_log, Called("remove", a, brk_remove(breakpoints, a).ret))
    /\ BrkFrame

Has ==
    /\ Len(brk_log) < MaxCalls
    /\ \E a \in Addresses :
          /\ breakpoints' = breakpoints
          /\ brk_log' = Append(brk_log, Called("has", a, brk_has(breakpoints, a)))
    /\ BrkFrame

InitBreaks ==
    /\ build = "debug"
    /\ breakpoints = BreakpointManager_new
    /\ brk_log = <<>>
    /\ IdlePure /\ IdlePipe /\ IdleMem /\ IdleLab /\ IdleHuff /\ IdleBackEnd /\ IdleLex
    /\ IdleCpu /\ IdleParser /\ IdleDisplay

NextBreaks ==
    \/ Add
    \/ Remove
    \/ Has

SpecBreaks == InitBreaks /\ [][NextBreaks]_vars

\* the addresses added among the first i calls and not removed since
Present(i) ==
    {a \in Addresses :
        \E j \in 1..i :
            /\ brk_log[j].op = "add" /\ brk_log[j].address = a
            /\ \A k \in (j + 1)..i :
                  ~(brk_log[k].op = "remove" /\ brk_log[k].address = a)}

\* C20: after any sequence of add and remove calls has(a) is true exactly
\* when a was added and not removed since; remove(a) returns Ok and deletes
\* a when a is present, returns Err and changes nothing when a is absent;
\* adding an address that is present changes nothing
C20_BreakpointRegistry ==
    /\ \A a \in Addresses : brk_has(breakpoints, a) <=> a \in Present(Len(brk_log))
    /\ breakpoints = Present(Len(brk_log))
    /\ \A i \in 1..Len(brk_log) :
          /\ brk_log[i].op = "remove" =>
                brk_log[i].ret = (IF brk_log[i].address \in Present(i - 1) THEN "Ok"
                                  ELSE "Err")
          /\ brk_log[i].op = "has" =>
                brk_log[i].ret = (brk_log[i].address \in Present(i - 1))

\* an address was added twice, then removed with Ok, then removed again
\* with Err
C20_Witness ==
    \E i, j, k \in 1..Len(brk_log) :
        /\ i < j /\ j < k
        /\ brk_log[i].op = "add" /\ brk_log[i].address \in Present(i - 1)
        /\ brk_log[j].op = "remove" /\ brk_log[j].ret = "Ok"
        /\ brk_log[k].op = "remove" /\ brk_log[k].ret = "Err"
        /\ brk_log[i].address = brk_log[j].address
        /\ brk_log[j].address = brk_log[k].address

---------------------------------------------------------------------------
(* src/emu/include/cpu.rs: the emulator's CPU, and SpecCpu: execute()      *)
(* called a few times on a memory whose first words hold an instruction.   *)

DISASM_INS_COUNT == 37

\* the opcodes disasm_format has a format for: 0x00..0x13 and 0x24
KnownOpcodes == 0..19 \cup {36}
disasm_format(opcode) == IF opcode \in KnownOpcodes THEN "Some" ELSE "None"

\* Memory::read_u32(ptr): read(ptr, 32) narrowed to a u32
emu_read_u32(me, ptr, b) == emu_read_bits(me, ptr, 32, b)

\* Memory::read_u64(ptr): read(ptr, 64)
emu_read_u64(me, ptr, b) == emu_read(me, ptr, 64, b)

\* disasm_opcode: the opcode, its format, and the pointer moved on by 4
disasm_opcode(me, ptr, b) ==
    LET opcode == emu_read_u32(me, ptr, b)
    IN IF IsPanic(opcode) THEN Panic
       ELSE [opcode |-> opcode.val, ptr |-> ptr + 4,
             format |-> disasm_format(opcode.val)]

cpu_PC == 0

CPU_new(me) ==
    [mem |-> me,
     r |-> [i \in 0..7 |-> {}],
     z |-> FALSE, n |-> FALSE, c |-> FALSE, v |-> FALSE,
     h |-> FALSE, m |-> FALSE, t |-> FALSE, s |-> FALSE, sleep |-> FALSE,
     ptr |-> [i \in 0..3 |-> 0],
     instruction_count |-> [i \in 0..(DISASM_INS_COUNT - 1) |-> 0],
     panicked |-> FALSE]

\* the index a u64 register number makes, or 8 for every number past r7
RegIndex(w) == IF w \subseteq {0, 1, 2} THEN IntOf(Trim([i \in 1..3 |-> IF (i - 1) \in w THEN 1 ELSE 0])) ELSE 8

\* wrapping_add on two u64 words
WrappingAdd(x, y) ==
    WordOf(LowBits(AddN(Trim([i \in 1..64 |-> IF (i - 1) \in x THEN 1 ELSE 0]),
                        Trim([i \in 1..64 |-> IF (i - 1) \in y THEN 1 ELSE 0])), 64))

update_flags(c) == [c EXCEPT !.z = (c.r[0] = {}), !.n = (63 \in c.r[0])]

Crashed(c) == [c EXCEPT !.panicked = TRUE]

\* the 0x01 arm: r[reg] = read_u64(addr), then PC += 16
arm_load(c, b) ==
    LET reg == emu_read_u64(c.mem, c.ptr[cpu_PC], b)
        addr == emu_read_u64(c.mem, c.ptr[cpu_PC] + 8, b)
        \* an address past the memory panics in read's index; the sample
        \* memories are shorter than 2^16 bits
        far == \E i \in addr.val : i >= 16
        a == IntOf(Trim([i \in 1..16 |-> IF (i - 1) \in addr.val THEN 1 ELSE 0]))
        val == emu_read_u64(c.mem, a, b)
    IN IF IsPanic(reg) \/ IsPanic(addr) THEN Panic
       ELSE IF far \/ RegIndex(reg.val) > 7 THEN Panic
       ELSE IF IsPanic(val) THEN Panic
       ELSE [c EXCEPT !.r[RegIndex(reg.val)] = val.val,
                      !.ptr[cpu_PC] = c.ptr[cpu_PC] + 16]

\* the 0x02 arm: r[reg1] = r[reg1].wrapping_add(r[reg2]), then PC += 6
arm_add(c, b) ==
    LET reg1 == emu_read_bits(c.mem, c.ptr[cpu_PC], 3, b)
        reg2 == emu_read_bits(c.mem, c.ptr[cpu_PC] + 3, 3, b)
    IN IF IsPanic(reg1) \/ IsPanic(reg2) THEN Panic
       ELSE IF reg1.val > 7 \/ reg2.val > 7 THEN Panic
       ELSE [c EXCEPT !.r[reg1.val] = WrappingAdd(c.r[reg1.val], c.r[reg2.val]),
                      !.ptr[cpu_PC] = c.ptr[cpu_PC] + 6]

\* CPU::execute: the CPU after it, stopped where a panic ended the call
execute(c, b) ==
    LET d == disasm_opcode(c.mem, c.ptr[cpu_PC], b)
        counted == IF d.opcode < DISASM_INS_COUNT
                   THEN [c EXCEPT !.instruction_count[d.opcode] = @ + 1,
                                  !.ptr[cpu_PC] = d.ptr]
                   ELSE [c EXCEPT !.ptr[cpu_PC] = d.ptr]
        after == IF d.opcode = 1 THEN arm_load(counted, b)
                 ELSE IF d.opcode = 2 THEN arm_add(counted, b)
                 ELSE [counted EXCEPT !.h = TRUE]
    IN IF IsPanic(d) THEN Crashed(c)
       ELSE IF IsPanic(after) THEN Crashed(counted)
       ELSE update_flags(after)

MaxExec == 3

\* the words a program's first instruction may leave in memory: an opcode
\* in the 32 bits read at address 0, operand bits behind it
OpcodeSamples == {0, 1, 2, 3, 15, 16, 19, 20, 36, 37, 99}
OperandSamples == {{}, {0}, {4}, {31}, {26, 29}}
WordSamples == {U64Shl(WordOf(NatOf(o)), 32) \cup x : o \in OpcodeSamples, x \in OperandSamples}

CpuFrame == UNCHANGED <<build, pureVars, pipeVars, memVars, labVars, huffVars, beVars,
                        lexVars, brkVars, parVars, gfxVars>>

Execute ==
    /\ ~cpu.panicked
    /\ cpu_log.steps < MaxExec
    /\ \E d \in {disasm_opcode(cpu.mem, cpu.ptr[cpu_PC], build)} :
        \E after \in {execute(cpu, build)} :
            /\ cpu' = after
            /\ cpu_log' = [steps |-> cpu_log.steps + 1, pc |-> cpu.ptr[cpu_PC],
                           h |-> cpu.h, decoded |-> d]
    /\ CpuFrame

InitCpu ==
    /\ build \in Builds
    /\ \E w0 \in WordSamples, w1 \in {{}, {0}, {3, 60}} :
          cpu = CPU_new([emu_Memory_new(128, 0, 0, 0) EXCEPT !.mem = <<w0, w1>>])
    /\ cpu_log = [steps |-> 0]
    /\ IdlePure /\ IdlePipe /\ IdleMem /\ IdleLab /\ IdleHuff /\ IdleBackEnd /\ IdleLex
    /\ IdleBreaks /\ IdleParser /\ IdleDisplay

NextCpu ==
    \/ Execute

SpecCpu == InitCpu /\ [][NextCpu]_vars

\* the last execute() returned, having decoded a known instruction
Executed == cpu_log.steps >= 1 /\ ~cpu.panicked

\* C27: after any CPU step at whose end the program counter equals its
\* value at the start of the step, the halt flag H is set; H is not set by
\* a step that decoded a known instruction and advanced the program
\* counter.
C27_HaltDetection ==
    Executed
        => /\ cpu.ptr[cpu_PC] = cpu_log.pc => cpu.h
           /\ (cpu_log.decoded.format = "Some" /\ cpu.ptr[cpu_PC] # cpu_log.pc)
                  => cpu.h = cpu_log.h

\* the program counter never ends a step where it started it: execute()
\* has no instruction that moves PC back
PcAlwaysAdvances == Executed => cpu.ptr[cpu_PC] > cpu_log.pc

\* H is raised exactly by the steps whose opcode is neither 0x01 nor 0x02
HaltIsDefaultArm ==
    Executed => (cpu.h <=> (cpu_log.h \/ cpu_log.decoded.opcode \notin {1, 2}))

---------------------------------------------------------------------------
(* src/compiler/parser.rs: the Parser's pending stack, and SpecParser:     *)
(* run() over every short stream of tokens.                                *)

ParToken(typ, value) == [typ |-> typ, value |-> value]

\* Parser.functions as Parser::new builds it from a transition table with
\* the families jump (one label), add2 (two operands) and return (none)
functions ==
    [jump |-> (<<"Label">> :> [funcname |-> "jumpl", types |-> <<"Label">>]),
     add2 |-> (<<"Label", "Label">> :> [funcname |-> "add2", types |-> <<"Label", "Label">>]),
     return |-> (<<>> :> [funcname |-> "return", types |-> <<>>])]

\* the positions of the Operation tokens of a stack
Operations(st) == {i \in 1..Len(st) : st[i].typ = "Operation"}
LastOperation(st) == CHOOSE k \in Operations(st) : \A j \in Operations(st) : j <= k

\* unstack_until_operation: tokens are popped off the top and pushed on the
\* back of a queue until an Operation token is popped; that token is
\* dropped and the queue returned
unstack_until_operation(st) ==
    IF Operations(st) = {}
    THEN [kind |-> "err", val |-> "Couldn't find operation on the stack", stack |-> <<>>]
    ELSE LET k == LastOperation(st)
         IN [kind |-> "ok", val |-> Reverse(SubSeq(st, k + 1, Len(st))),
             stack |-> SubSeq(st, 1, k - 1)]

\* read_value for the Label type: the text as it stands
read_value(goal_type, value) == [typ |-> goal_type, raw_value |-> value]

\* handle_one: the stack it leaves and the Line it pushes on out_stack, the
\* error it returns, or the panic of res[0] on an empty res
handle_one(st) ==
    LET u == unstack_until_operation(st)
        res == u.val
        fun_name == res[1].value
        rest == Tail(res)
        args_types == [i \in 1..Len(rest) |-> rest[i].typ]
        found == functions[fun_name][args_types]
    IN IF u.kind = "err" THEN u
       ELSE IF res = <<>> THEN [kind |-> "panic", val |-> "index out of bounds", stack |-> u.stack]
       ELSE IF fun_name \notin DOMAIN functions
       THEN [kind |-> "err", val |-> "Function not found", stack |-> u.stack]
       ELSE IF args_types \notin DOMAIN functions[fun_name]
       THEN [kind |-> "err", val |-> "Arguments types don't match function", stack |-> u.stack]
       ELSE [kind |-> "ok",
             val |-> [funcname |-> found.funcname,
                      typed_args |-> [i \in 1..Len(rest) |->
                                         read_value(found.types[i], rest[i].value)]],
             stack |-> u.stack]

MaxTokens == 5

TokenAlphabet ==
    {ParToken("Operation", "jump"), ParToken("Operation", "return"),
     ParToken("Label", "L"), ParToken("Label", "M"),
     ParToken("Label", "jump"), ParToken("Label", "add2"),
     ParToken("NewLine", ""), ParToken("Comment", "")}

ParFrame == UNCHANGED <<build, pureVars, pipeVars, memVars, labVars, huffVars, beVars,
                        lexVars, brkVars, cpuVars, gfxVars>>

Running == parser.result = "running" /\ parser.lexer_gen # <<>>

\* run(), a Comment or EndFile token: continue
SkipToken ==
    /\ Running
    /\ Head(parser.lexer_gen).typ \in {"Comment", "EndFile"}
    /\ parser' = [parser EXCEPT !.lexer_gen = Tail(@)]
    /\ UNCHANGED parse_log
    /\ ParFrame

\* run(), any other token but a NewLine: self.stack.push(token)
PushToken ==
    /\ Running
    /\ Head(parser.lexer_gen).typ \notin {"Comment", "EndFile", "NewLine"}
    /\ parser' = [parser EXCEPT !.lexer_gen = Tail(@),
                                !.stack = Append(@, Head(parser.lexer_gen))]
    /\ UNCHANGED parse_log
    /\ ParFrame

\* run(), a NewLine token: handle_one()?, then out_stack is popped empty
\* and printed
NewLine ==
    /\ Running
    /\ Head(parser.lexer_gen).typ = "NewLine"
    /\ \E h \in {handle_one(parser.stack)} :
          /\ parser' = [parser EXCEPT !.lexer_gen = Tail(@),
                                      !.stack = h.stack,
                                      !.result = IF h.kind = "ok" THEN "running" ELSE h.kind]
          /\ parse_log' = Append(parse_log, [before |-> parser.stack, after |-> h.stack,
                                             out |-> [kind |-> h.kind, val |-> h.val]])
    /\ ParFrame

\* run(), the token stream is over: Ok(())
EndOfTokens ==
    /\ parser.result = "running" /\ parser.lexer_gen = <<>>
    /\ parser' = [parser EXCEPT !.result = "ok"]
    /\ UNCHANGED parse_log
    /\ ParFrame

InitParser ==
    /\ build \in Builds
    /\ \E toks \in UNION {[1..n -> TokenAlphabet] : n \in 1..MaxTokens} :
          parser = [lexer_gen |-> toks, stack |-> <<>>, out_stack |-> <<>>,
                    result |-> "running"]
    /\ parse_log = <<>>
    /\ IdlePure /\ IdlePipe /\ IdleMem /\ IdleLab /\ IdleHuff /\ IdleBackEnd /\ IdleLex
    /\ IdleBreaks /\ IdleCpu /\ IdleDisplay

NextParser ==
    \/ SkipToken
    \/ PushToken
    \/ NewLine
    \/ EndOfTokens

SpecParser == InitParser /\ [][NextParser]_vars

\* the operands of the line on top of a stack, in source order
Operands(st) == SubSeq(st, LastOperation(st) + 1, Len(st))
OperandTypes(st) == [i \in 1..Len(Operands(st)) |-> Operands(st)[i].typ]

\* the stack holds a line of a family the table knows
KnownLine(st) ==
    /\ Operations(st) # {}
    /\ st[LastOperation(st)].value \in DOMAIN functions
    /\ OperandTypes(st) \in DOMAIN functions[st[LastOperation(st)].value]

\* C29: on each newline the parser removes from its pending stack the most
\* recent Operation token and every token pushed after it, selects the
\* family named by that Operation token, and yields the operand tokens in
\* the order they appeared in the source; tokens pushed before that
\* Operation token stay on the stack.
C29_LineAssembly ==
    \A i \in 1..Len(parse_log) :
        LET e == parse_log[i]
            st == e.before
        IN KnownLine(st)
              => /\ e.after = SubSeq(st, 1, LastOperation(st) - 1)
                 /\ e.out.kind = "ok"
                 /\ e.out.val.funcname
                       = functions[st[LastOperation(st)].value][OperandTypes(st)].funcname
                 /\ [k \in 1..Len(e.out.val.typed_args) |-> e.out.val.typed_args[k].raw_value]
                       = [k \in 1..Len(Operands(st)) |-> Operands(st)[k].value]

\* what does hold: the tokens below the most recent Operation token stay
StackBelowStays ==
    \A i \in 1..Len(parse_log) :
        Operations(parse_log[i].before) # {}
            => parse_log[i].after
                  = SubSeq(parse_log[i].before, 1, LastOperation(parse_log[i].before) - 1)

\* a line the parser does yield: never one whose family the Operation names
YieldedLine == \E i \in 1..Len(parse_log) : parse_log[i].out.kind = "ok"

---------------------------------------------------------------------------
(* src/emu/include/graphical.rs: the display thread start() spawns, and    *)
(* the threads that call wait() and stop().  SpecDisplay is the safety     *)
(* part; SpecDisplayFair adds the scheduler's fairness.                    *)

MaxFrames == 2
Threads == {"t1", "t2", "t3"}

\* Graphical::new and start(): the flag is false, nobody holds its mutex,
\* the display thread is at the top of its loop
Graphical_new ==
    [stop_signal |-> FALSE, holder |-> "none",
     display |-> [pc |-> "check", quit |-> FALSE, frames |-> 0, since_stop |-> 0],
     callers |-> [t \in Threads |-> [fn |-> "none", pc |-> "idle"]]]

\* cvar.notify_all(): every thread blocked in cvar.wait goes back to
\* taking the mutex
notify_all(cs) ==
    [t \in Threads |-> IF cs[t].pc = "waiting" THEN [cs[t] EXCEPT !.pc = "lock"] ELSE cs[t]]

GfxFrame == UNCHANGED <<build, pureVars, pipeVars, memVars, labVars, huffVars, beVars,
                        lexVars, brkVars, cpuVars, parVars>>

\* the loop's first statement: if *lock.lock().unwrap() { break }
CheckStop ==
    /\ display.pc = "check" /\ holder = "none"
    /\ display' = [display EXCEPT !.pc = IF stop_signal THEN "notify" ELSE "poll"]
    /\ UNCHANGED <<stop_signal, holder, callers>>
    /\ GfxFrame

\* the event loop: a Quit event breaks out of 'running
PollEvents ==
    /\ display.pc = "poll"
    /\ display' = [display EXCEPT !.pc = IF display.quit THEN "notify" ELSE "draw"]
    /\ UNCHANGED <<stop_signal, holder, callers>>
    /\ GfxFrame

\* the rest of the frame: callback, texture update, present, sleep
DrawFrame ==
    /\ display.pc = "draw"
    /\ display' = [display EXCEPT !.pc = "check",
                                  !.frames = Min(@ + 1, MaxFrames),
                                  !.since_stop = IF stop_signal THEN Min(@ + 1, MaxFrames)
                                                 ELSE 0]
    /\ UNCHANGED <<stop_signal, holder, callers>>
    /\ GfxFrame

\* after the loop: cvar.notify_all(), and the thread ends
ExitNotify ==
    /\ display.pc = "notify"
    /\ display' = [display EXCEPT !.pc = "exited"]
    /\ callers' = notify_all(callers)
    /\ UNCHANGED <<stop_signal, holder>>
    /\ GfxFrame

\* the user closes the window
QuitEvent ==
    /\ ~display.quit /\ display.pc # "exited"
    /\ display' = [display EXCEPT !.quit = TRUE]
    /\ UNCHANGED <<stop_signal, holder, callers>>
    /\ GfxFrame

\* a thread calls wait() or stop()
CallOn(t, fn) ==
    /\ callers[t].pc = "idle"
    /\ callers' = [callers EXCEPT ![t] = [fn |-> fn, pc |-> "lock"]]
    /\ UNCHANGED <<stop_signal, holder, display>>
    /\ GfxFrame

\* lock.lock().unwrap() in wait() and in stop(), and the mutex taken again
\* on the way out of cvar.wait
TakeLock(t) ==
    /\ callers[t].pc = "lock" /\ holder = "none"
    /\ holder' = t
    /\ callers' = [callers EXCEPT ![t].pc = IF callers[t].fn = "wait" THEN "test" ELSE "set"]
    /\ UNCHANGED <<stop_signal, display>>
    /\ GfxFrame

\* wait(): while !*stopped { stopped = cvar.wait(stopped) }; cvar.wait
\* gives the mutex up, returning drops the guard
WaitTest(t) ==
    /\ callers[t].pc = "test" /\ holder = t
    /\ callers' = [callers EXCEPT ![t].pc = IF stop_signal THEN "returned" ELSE "waiting"]
    /\ holder' = "none"
    /\ UNCHANGED <<stop_signal, display>>
    /\ GfxFrame

\* Condvar::wait may wake with no notification
SpuriousWake(t) ==
    /\ callers[t].pc = "waiting"
    /\ callers' = [callers EXCEPT ![t].pc = "lock"]
    /\ UNCHANGED <<stop_signal, holder, display>>
    /\ GfxFrame

\* stop(): *stop_flag = true; cvar.notify_all(); the guard drops on return
StopSet(t) ==
    /\ callers[t].pc = "set" /\ holder = t
    /\ stop_signal' = TRUE
    /\ callers' = [notify_all(callers) EXCEPT ![t].pc = "returned"]
    /\ holder' = "none"
    /\ display' = [display EXCEPT !.since_stop = IF stop_signal THEN @ ELSE 0]
    /\ GfxFrame

InitDisplay ==
    /\ build \in Builds
    /\ stop_signal = Graphical_new.stop_signal
    /\ holder = Graphical_new.holder
    /\ display = Graphical_new.display
    /\ callers = Graphical_new.callers
    /\ IdlePure /\ IdlePipe /\ IdleMem /\ IdleLab /\ IdleHuff /\ IdleBackEnd /\ IdleLex
    /\ IdleBreaks /\ IdleCpu /\ IdleParser

NextDisplay ==
    \/ CheckStop
    \/ PollEvents
    \/ DrawFrame
    \/ ExitNotify
    \/ QuitEvent
    \/ \E t \in Threads, fn \in {"wait", "stop"} : CallOn(t, fn)
    \/ \E t \in Threads : TakeLock(t)
    \/ \E t \in Threads : WaitTest(t)
    \/ \E t \in Threads : SpuriousWake(t)
    \/ \E t \in Threads : StopSet(t)

SpecDisplay == InitDisplay /\ [][NextDisplay]_vars

\* the scheduler runs every thread that can take a step, and a thread that
\* keeps asking for the mutex gets it; nothing obliges the user to close
\* the window, a thread to call wait() or stop(), or a wait to wake
\* spuriously
DisplayFairness ==
    /\ SF_vars(CheckStop)
    /\ WF_vars(PollEvents) /\ WF_vars(DrawFrame) /\ WF_vars(ExitNotify)
    /\ \A t \in Threads :
          SF_vars(TakeLock(t)) /\ WF_vars(WaitTest(t)) /\ WF_vars(StopSet(t))

SpecDisplayFair == InitDisplay /\ [][NextDisplay]_vars /\ DisplayFairness

InWait(t) == callers[t].fn = "wait" /\ callers[t].pc # "returned"
Exited == display.pc = "exited"

\* C30: the display thread consults the quit flag at every frame, so after
\* stop() it leaves its loop within one frame; and whenever the display
\* thread has left its loop, because of stop() or because of a window Quit
\* event, every call to wait(), made before or after that moment,
\* eventually returns.
C30_DisplayShutdown ==
    /\ [](display.since_stop <= 1)
    /\ (stop_signal ~> Exited)
    /\ \A t \in Threads : (Exited /\ InWait(t)) ~> ~InWait(t)

\* the first half of C30: at most the frame in progress is drawn after
\* stop(), and the loop is then left
StopEndsLoop == [](display.since_stop <= 1) /\ (stop_signal ~> Exited)

\* every wait() returns once stop() has set the flag
WaitAfterStop == \A t \in Threads : (stop_signal /\ InWait(t)) ~> ~InWait(t)

====
